---- MODULE Spec2Model ----
(***************************************************************************)
(* Model of the MODE II data-ingestion pipeline (mode2/api): the file      *)
(* validator (validators.py), the dynamic per-dataset series tables        *)
(* (importers.py, data_retrieval.py) and the import endpoint (views.py).   *)
(*                                                                         *)
(* Text is a sequence of characters, each character a one-character        *)
(* string; the characters outside ASCII that the model uses carry their    *)
(* code point as a name ("U+FEFF"), and so do the ASCII control characters *)
(* that TLA+ has no escape for ("U+000B", "U+001C").  A byte string is a   *)
(* sequence of byte tokens: an ASCII byte is written as its character, the *)
(* others as "xEF", "xBB", "xBF", "xE9".                                   *)
(***************************************************************************)
EXTENDS Integers, Sequences, FiniteSets, TLC

VARIABLES
    file_input,     \* the uploaded content handed to validate_data_file
    file_desc,      \* how file_input was built (row shapes), for the properties
    vpc,            \* position of the validate call: "idle" | "start" | "done"
    result,         \* the ValidationResult it returned
    vr,             \* a ValidationResult object under a sequence of calls
    vr_op,          \* the last method called on vr: "init" | "add_error" | "add_warning"
    db,             \* the database: table name -> rows, for the tables that exist
    imported,       \* per (uuid, series type): the data of its latest undisturbed import, or None
    last,           \* per caller: its latest Series Store call, under way or ended
    request,        \* the last import request
    response,       \* the response it was answered with
    naming,         \* two get_table_name calls: their arguments and identifiers
    interp,         \* one interpolate_to_integer_grid call: arguments and result
    th,             \* the requests in progress: thread -> the state of its handler
    calculator_instance, \* the module-level _calculator_instance, or None
    constructed,    \* how many Mode2Calculator objects were constructed
    existed,        \* the names of the tables that existed at some time
    observed        \* what the readers that found a table missing saw

(***************************************************************************)
(* Python text primitives used by the code                                 *)
(***************************************************************************)
DigitChars == <<"0", "1", "2", "3", "4", "5", "6", "7", "8", "9">>

IsDigit(c) == \E k \in 1..10 : DigitChars[k] = c

DigitVal(c) == (CHOOSE k \in 1..10 : DigitChars[k] = c) - 1

\* the whitespace of ASCII that C's isspace() knows (Py_ISSPACE): tab, line
\* feed, vertical tab, form feed, carriage return and the space
AsciiSpaces == {" ", "\t", "\n", "U+000B", "\f", "\r"}

\* the ASCII separators FS, GS, RS and US, whitespace to str.isspace() only
AsciiSeparators == {"U+001C", "U+001D", "U+001E", "U+001F"}

\* the whitespace outside ASCII
UnicodeSpaces ==
    {"U+0085", "U+00A0", "U+1680", "U+2000", "U+2001", "U+2002", "U+2003", "U+2004",
     "U+2005", "U+2006", "U+2007", "U+2008", "U+2009", "U+200A", "U+2028", "U+2029",
     "U+202F", "U+205F", "U+3000"}

Whitespace == AsciiSpaces \cup AsciiSeparators \cup UnicodeSpaces

\* str.isspace() of one character
IsSpace(c) == c \in Whitespace

\* s[a..b] (1-based, inclusive); empty when a > b
Slice(s, a, b) == [k \in 1..(IF b >= a THEN b - a + 1 ELSE 0) |-> s[a + k - 1]]

\* the first and the last character of s outside the set spaces
FirstOutside(s, spaces) ==
    IF \E k \in 1..Len(s) : s[k] \notin spaces
    THEN CHOOSE k \in 1..Len(s) : s[k] \notin spaces /\ \A j \in 1..(k - 1) : s[j] \in spaces
    ELSE Len(s) + 1

LastOutside(s, spaces) ==
    IF \E k \in 1..Len(s) : s[k] \notin spaces
    THEN CHOOSE k \in 1..Len(s) : s[k] \notin spaces /\ \A j \in (k + 1)..Len(s) : s[j] \in spaces
    ELSE 0

\* s without the characters of spaces at its two ends
StripOf(s, spaces) == Slice(s, FirstOutside(s, spaces), LastOutside(s, spaces))

\* str.strip()
strip(s) == StripOf(s, Whitespace)

\* str.replace(old, new) for one-character old and new
replace(s, old, new) == [k \in 1..Len(s) |-> IF s[k] = old THEN new ELSE s[k]]

\* str.startswith(c) for a one-character prefix
startswith(s, c) == Len(s) >= 1 /\ s[1] = c

\* the indices 1..Len(s) whose element satisfies Test, ascending
Indices(s, Test(_)) == SelectSeq([k \in 1..Len(s) |-> k], Test)

\* str.split(sep) with an explicit one-character separator: always at least
\* one field, "" splits into [""].
split(s, sep) ==
    LET at == Indices(s, LAMBDA k : s[k] = sep)
        n == Len(at)
    IN  [i \in 1..(n + 1) |->
            Slice(s, IF i = 1 THEN 1 ELSE at[i - 1] + 1,
                     IF i = n + 1 THEN Len(s) ELSE at[i] - 1)]

\* the letters of the model's alphabet: the ASCII letters, and e-acute,
\* a-grave and i-diaeresis with their capitals
LowerLetters ==
    <<"a", "b", "c", "d", "e", "f", "g", "h", "i", "j", "k", "l", "m",
      "n", "o", "p", "q", "r", "s", "t", "u", "v", "w", "x", "y", "z",
      "U+00E9", "U+00E0", "U+00EF">>

UpperLetters ==
    <<"A", "B", "C", "D", "E", "F", "G", "H", "I", "J", "K", "L", "M",
      "N", "O", "P", "Q", "R", "S", "T", "U", "V", "W", "X", "Y", "Z",
      "U+00C9", "U+00C0", "U+00CF">>

\* the letters without case of the model's alphabet: an Arabic ligature and
\* four CJK ideographs
CaselessLetters == {"U+FEFB", "U+9EFF", "U+9EFB", "U+9FFB", "U+9FFF"}

IsLower(c) == \E k \in DOMAIN LowerLetters : LowerLetters[k] = c

IsUpper(c) == \E k \in DOMAIN UpperLetters : UpperLetters[k] = c

\* str.lower() and str.upper() of one character
LowerChar(c) ==
    IF IsUpper(c) THEN LowerLetters[CHOOSE k \in DOMAIN UpperLetters : UpperLetters[k] = c] ELSE c

UpperChar(c) ==
    IF IsLower(c) THEN UpperLetters[CHOOSE k \in DOMAIN LowerLetters : LowerLetters[k] = c] ELSE c

\* str.lower()
lower(s) == [k \in 1..Len(s) |-> LowerChar(s[k])]

\* str.capitalize(): first character upper case, the rest lower case
capitalize(s) == [k \in 1..Len(s) |-> IF k = 1 THEN UpperChar(s[k]) ELSE LowerChar(s[k])]

\* the decimal digits outside ASCII of the model's alphabet: the
\* Arabic-Indic digits zero to nine
ArabicIndicDigits ==
    <<"U+0660", "U+0661", "U+0662", "U+0663", "U+0664", "U+0665", "U+0666", "U+0667",
      "U+0668", "U+0669">>

\* str.isdecimal() of one character
IsDecimal(c) == IsDigit(c) \/ \E k \in 1..10 : ArabicIndicDigits[k] = c

\* str.isalnum() of one character: a letter, with or without case, or a digit
isalnum(c) == IsLower(c) \/ IsUpper(c) \/ IsDecimal(c) \/ c \in CaselessLetters

\* str.replace(c, '')
remove(s, c) == SelectSeq(s, LAMBDA x : x # c)

(***************************************************************************)
(* The floats read from text, stored in the tables and carried in the      *)
(* requests: a float is written as the fraction n/d in lowest terms with   *)
(* d > 0 and is the double nearest to it; the three special values are     *)
(* inf = 1/0, -inf = -1/0 and nan = 0/0.  Zero has no sign.  Fractions are *)
(* compared, never added or multiplied: the arithmetic of the code is done *)
(* on the doubles (further down).                                          *)
(***************************************************************************)
RECURSIVE GCD(_, _)
GCD(a, b) == IF b = 0 THEN a ELSE GCD(b, a % b)

Abs(n) == IF n < 0 THEN -n ELSE n

Sign(n) == IF n > 0 THEN 1 ELSE IF n < 0 THEN -1 ELSE 0

Frac(n, d) ==
    IF d = 0 THEN [n |-> Sign(n), d |-> 0]
    ELSE LET g == GCD(Abs(n), Abs(d))
         IN  [n |-> Sign(d) * (n \div g), d |-> Abs(d) \div g]

\* float(i) of an integer
float(i) == [n |-> i, d |-> 1]

inf == [n |-> 1, d |-> 0]

nan == [n |-> 0, d |-> 0]

IsFinite(a) == a.d # 0

IsNan(a) == a.d = 0 /\ a.n = 0

FNeg(a) == [n |-> -a.n, d |-> a.d]

\* a <= b and a >= b, on finite values
FLe(a, b) == a.n * b.d <= b.n * a.d

FGe(a, b) == FLe(b, a)

(***************************************************************************)
(* Natural numbers of any size: the digits in base 2^15, the least         *)
(* significant first and the most significant not zero; zero is <<>>.      *)
(***************************************************************************)
LimbBase == 2^15

Limb(a, k) == IF k <= Len(a) THEN a[k] ELSE 0

RECURSIVE BTrim(_)
BTrim(a) == IF a # <<>> /\ a[Len(a)] = 0 THEN BTrim(SubSeq(a, 1, Len(a) - 1)) ELSE a

RECURSIVE BNat(_)
BNat(n) == IF n = 0 THEN <<>> ELSE <<n % LimbBase>> \o BNat(n \div LimbBase)

RECURSIVE BCmpFrom(_, _, _)
BCmpFrom(a, b, k) ==
    IF k = 0 THEN 0
    ELSE IF a[k] # b[k] THEN (IF a[k] < b[k] THEN -1 ELSE 1)
    ELSE BCmpFrom(a, b, k - 1)

\* -1, 0 or 1 as a < b, a = b or a > b
BCmp(a, b) ==
    IF Len(a) # Len(b) THEN (IF Len(a) < Len(b) THEN -1 ELSE 1) ELSE BCmpFrom(a, b, Len(a))

RECURSIVE BAddFrom(_, _, _, _)
BAddFrom(a, b, k, carry) ==
    IF k > Len(a) /\ k > Len(b) THEN (IF carry = 0 THEN <<>> ELSE <<carry>>)
    ELSE <<(Limb(a, k) + Limb(b, k) + carry) % LimbBase>>
         \o BAddFrom(a, b, k + 1, (Limb(a, k) + Limb(b, k) + carry) \div LimbBase)

BAdd(a, b) == BAddFrom(a, b, 1, 0)

RECURSIVE BSubFrom(_, _, _, _)
BSubFrom(a, b, k, borrow) ==
    IF k > Len(a) THEN <<>>
    ELSE <<(a[k] - Limb(b, k) - borrow + LimbBase) % LimbBase>>
         \o BSubFrom(a, b, k + 1, IF a[k] - Limb(b, k) - borrow < 0 THEN 1 ELSE 0)

\* a - b, for a >= b
BSub(a, b) == BTrim(BSubFrom(a, b, 1, 0))

RECURSIVE BMulSmallFrom(_, _, _, _)
BMulSmallFrom(a, f, k, carry) ==
    IF k > Len(a) THEN (IF carry = 0 THEN <<>> ELSE <<carry>>)
    ELSE <<(a[k] * f + carry) % LimbBase>>
         \o BMulSmallFrom(a, f, k + 1, (a[k] * f + carry) \div LimbBase)

\* a * f, for f < 2^15
BMulSmall(a, f) == IF f = 0 THEN <<>> ELSE BMulSmallFrom(a, f, 1, 0)

RECURSIVE BMul(_, _)
BMul(a, b) ==
    IF a = <<>> \/ b = <<>> THEN <<>>
    ELSE BAdd(BMulSmall(a, b[1]), BTrim(<<0>> \o BMul(a, Tail(b))))

\* a * 2^k
BShl(a, k) ==
    IF a = <<>> THEN <<>>
    ELSE [i \in 1..(k \div 15) |-> 0] \o BMulSmall(a, 2^(k % 15))

RECURSIVE BDivSmallFrom(_, _, _, _, _)
BDivSmallFrom(a, d, k, r, q) ==
    IF k = 0 THEN [q |-> BTrim(q), r |-> IF r = 0 THEN <<>> ELSE <<r>>]
    ELSE BDivSmallFrom(a, d, k - 1, (r * LimbBase + a[k]) % d,
                       <<(r * LimbBase + a[k]) \div d>> \o q)

\* the number of binary digits of a
BitLen(a) ==
    IF a = <<>> THEN 0
    ELSE 15 * (Len(a) - 1)
         + (CHOOSE k \in 1..15 : 2^(k - 1) <= a[Len(a)] /\ a[Len(a)] < 2^k)

RECURSIVE BDigit(_, _, _, _)
\* the largest digit d of lo..hi with d * b <= r
BDigit(r, b, lo, hi) ==
    IF lo = hi THEN lo
    ELSE IF BCmp(BMulSmall(b, (lo + hi + 1) \div 2), r) <= 0
    THEN BDigit(r, b, (lo + hi + 1) \div 2, hi)
    ELSE BDigit(r, b, lo, (lo + hi + 1) \div 2 - 1)

RECURSIVE BDivLong(_, _, _, _, _)
BDivLongStep(a, b, k, r, d, q) == BDivLong(a, b, k - 1, BSub(r, BMulSmall(b, d)), <<d>> \o q)

BDivLongAt(a, b, k, r, q) == BDivLongStep(a, b, k, r, BDigit(r, b, 0, LimbBase - 1), q)

\* long division, digit k of a brought down to the remainder r
BDivLong(a, b, k, r, q) ==
    IF k = 0 THEN [q |-> BTrim(q), r |-> r]
    ELSE BDivLongAt(a, b, k, BTrim(<<a[k]>> \o r), q)

\* a div b and a mod b, for b > 0
BDivMod(a, b) ==
    IF Len(b) = 1 THEN BDivSmallFrom(a, b[1], Len(a), 0, <<>>)
    ELSE BDivLong(a, b, Len(a), <<>>, <<>>)

\* a div 2^k
BShr(a, k) ==
    IF k \div 15 >= Len(a) THEN <<>>
    ELSE BDivSmallFrom(SubSeq(a, k \div 15 + 1, Len(a)), 2^(k % 15),
                       Len(a) - k \div 15, 0, <<>>).q

(***************************************************************************)
(* The floats of the arithmetic the views and the bridge do themselves:    *)
(* IEEE 754 binary64.  A double is nan, an infinity, or (-1)^s * m * 2^e   *)
(* with m below 2^53 and e from -1074 to 971, m at least 2^52 unless       *)
(* e = -1074; zero has no digits.  Every operation rounds the exact        *)
(* result to the nearest double, ties to the even one.                     *)
(***************************************************************************)
DZero(s) == [cls |-> "finite", s |-> s, m |-> <<>>, e |-> 0]

DInf(s) == [cls |-> "inf", s |-> s, m |-> <<>>, e |-> 0]

DNan == [cls |-> "nan", s |-> 0, m |-> <<>>, e |-> 0]

IsZero(x) == x.cls = "finite" /\ x.m = <<>>

\* (-1)^s * m * 2^e for m <= 2^53
DNormal(s, m, e) ==
    IF m = <<>> THEN DZero(s)
    ELSE IF BitLen(m) = 54
    THEN (IF e + 1 > 971 THEN DInf(s) ELSE [cls |-> "finite", s |-> s, m |-> BShr(m, 1), e |-> e + 1])
    ELSE IF e > 971 THEN DInf(s)
    ELSE [cls |-> "finite", s |-> s, m |-> m, e |-> e]

\* round to nearest, ties to even
DPack(s, q, rem, e) ==
    DNormal(s, IF rem > 0 \/ (rem = 0 /\ q # <<>> /\ q[1] % 2 = 1) THEN BAddFrom(q, <<>>, 1, 1) ELSE q, e)

Max(a, b) == IF a >= b THEN a ELSE b

RoundShifted(s, N, q, k, e) ==
    DPack(s, q, BCmp(BSub(N, BShl(q, k)), BShl(<<1>>, k - 1)), e)

\* the double nearest to (-1)^s * N * 2^e2, for N > 0
RoundShift(s, N, e2) ==
    IF Max(e2 + BitLen(N) - 53, -1074) <= e2
    THEN DNormal(s, BShl(N, e2 - Max(e2 + BitLen(N) - 53, -1074)), Max(e2 + BitLen(N) - 53, -1074))
    ELSE RoundShifted(s, N, BShr(N, Max(e2 + BitLen(N) - 53, -1074) - e2),
                      Max(e2 + BitLen(N) - 53, -1074) - e2, Max(e2 + BitLen(N) - 53, -1074))

RoundQuotient(s, qr, D, e) ==
    IF BitLen(qr.q) = 54
    THEN DPack(s, BShr(qr.q, 1),
               IF qr.q[1] % 2 = 0 THEN -1 ELSE IF qr.r = <<>> THEN 0 ELSE 1, e + 1)
    ELSE DPack(s, qr.q, BCmp(BAdd(qr.r, qr.r), D), e)

RoundScaled(s, N, D, e) == RoundQuotient(s, BDivMod(N, D), D, e)

RoundRatioAt(s, N, D, e2, e) ==
    RoundScaled(s, IF e < e2 THEN BShl(N, e2 - e) ELSE N, IF e > e2 THEN BShl(D, e - e2) ELSE D, e)

\* the double nearest to (-1)^s * (N / D) * 2^e2, for N > 0 and D > 0
RoundRatio(s, N, D, e2) ==
    RoundRatioAt(s, N, D, e2, Max(e2 + BitLen(N) - BitLen(D) - 53, -1074))

Xor(s, t) == IF s = t THEN 0 ELSE 1

DNeg(x) == IF x.cls = "nan" THEN x ELSE [x EXCEPT !.s = 1 - x.s]

\* x * y
DMul(x, y) ==
    IF x.cls = "nan" \/ y.cls = "nan" THEN DNan
    ELSE IF x.cls = "inf" \/ y.cls = "inf"
    THEN (IF IsZero(x) \/ IsZero(y) THEN DNan ELSE DInf(Xor(x.s, y.s)))
    ELSE IF IsZero(x) \/ IsZero(y) THEN DZero(Xor(x.s, y.s))
    ELSE RoundShift(Xor(x.s, y.s), BMul(x.m, y.m), x.e + y.e)

\* the number of digits zero at the low end of m, for m > 0
RECURSIVE LowZeros(_)
LowZeros(m) == IF m[1] # 0 THEN 0 ELSE 1 + LowZeros(Tail(m))

\* x / y, for y # 0; the digits zero at the low end of the divisor go to
\* the exponent
DDiv(x, y) ==
    IF x.cls = "nan" \/ y.cls = "nan" THEN DNan
    ELSE IF x.cls = "inf" THEN (IF y.cls = "inf" THEN DNan ELSE DInf(Xor(x.s, y.s)))
    ELSE IF y.cls = "inf" \/ IsZero(x) THEN DZero(Xor(x.s, y.s))
    ELSE RoundRatio(Xor(x.s, y.s), x.m, SubSeq(y.m, LowZeros(y.m) + 1, Len(y.m)),
                    x.e - y.e - 15 * LowZeros(y.m))

AddAligned(sx, A, sy, B, e) ==
    IF sx = sy THEN RoundShift(sx, BAdd(A, B), e)
    ELSE IF BCmp(A, B) = 0 THEN DZero(0)
    ELSE IF BCmp(A, B) > 0 THEN RoundShift(sx, BSub(A, B), e)
    ELSE RoundShift(sy, BSub(B, A), e)

\* an addend more than 120 binary places below the other one changes the sum
\* only through the rounding direction: one unit 120 places below stands for it
Sticky(y, e) == IF e - y.e > 120 THEN [y EXCEPT !.m = <<1>>, !.e = e - 120] ELSE y

AddFinite(x, y) ==
    AddAligned(x.s, BShl(x.m, x.e - (IF x.e < y.e THEN x.e ELSE y.e)),
               y.s, BShl(y.m, y.e - (IF x.e < y.e THEN x.e ELSE y.e)),
               IF x.e < y.e THEN x.e ELSE y.e)

\* x + y
DAdd(x, y) ==
    IF x.cls = "nan" \/ y.cls = "nan" THEN DNan
    ELSE IF x.cls = "inf" THEN (IF y.cls = "inf" /\ y.s # x.s THEN DNan ELSE x)
    ELSE IF y.cls = "inf" THEN y
    ELSE IF IsZero(x) /\ IsZero(y) THEN DZero(IF x.s = 1 /\ y.s = 1 THEN 1 ELSE 0)
    ELSE IF IsZero(x) THEN y
    ELSE IF IsZero(y) THEN x
    ELSE AddFinite(Sticky(x, y.e), Sticky(y, x.e))

\* x - y
DSub(x, y) == DAdd(x, DNeg(y))

\* the double a fraction n/d stands for
ToDouble(a) ==
    IF a.d = 0 THEN (IF a.n = 0 THEN DNan ELSE DInf(IF a.n < 0 THEN 1 ELSE 0))
    ELSE IF a.n = 0 THEN DZero(0)
    ELSE RoundRatio(IF a.n < 0 THEN 1 ELSE 0, BNat(Abs(a.n)), BNat(a.d), 0)

RECURSIVE DigitsValue(_, _)
DigitsValue(s, k) ==
    IF k = 0 THEN 0 ELSE 10 * DigitsValue(s, k - 1) + DigitVal(s[k])

AllDigits(s) == \A k \in 1..Len(s) : IsDigit(s[k])

HasSign(t) == Len(t) >= 1 /\ t[1] \in {"+", "-"}

Unsigned(t) == IF HasSign(t) THEN Slice(t, 2, Len(t)) ELSE t

SignOf(t) == IF Len(t) >= 1 /\ t[1] = "-" THEN -1 ELSE 1

\* every underscore of the text stands between two digits
GroupedWell(s) ==
    \A k \in 1..Len(s) :
        s[k] = "_" => (k > 1 /\ k < Len(s) /\ IsDigit(s[k - 1]) /\ IsDigit(s[k + 1]))

\* the text without its underscores
Ungrouped(s) == SelectSeq(s, LAMBDA c : c # "_")

\* what int() and float() do to a str before they read it
\* (_PyUnicode_TransformDecimalAndSpaceToASCII): whitespace outside ASCII
\* becomes a space and a decimal digit outside ASCII the ASCII digit of its
\* value.  (Any other character outside ASCII becomes '?'; it is left as it
\* is here, no number holds either.)
AsciiDecimalAndSpace(s) ==
    [k \in 1..Len(s) |->
        IF s[k] \in UnicodeSpaces THEN " "
        ELSE IF \E j \in 1..10 : ArabicIndicDigits[j] = s[k]
        THEN DigitChars[CHOOSE j \in 1..10 : ArabicIndicDigits[j] = s[k]]
        ELSE s[k]]

\* the text int() and float() read: made ASCII, and without the whitespace
\* of Py_ISSPACE at its ends (the separators FS to US are not skipped)
NumberText(s) == StripOf(AsciiDecimalAndSpace(s), AsciiSpaces)

\* sys.get_int_max_str_digits(), the interpreter's default: int() refuses a
\* text of more digits
max_str_digits == 4300

\* int(text): surrounding whitespace ignored, optional sign, decimal digits
\* in groups separated by single underscores, at most max_str_digits of
\* them.  ok = FALSE stands for ValueError.
py_int(s) ==
    LET t == NumberText(s)
        u == Unsigned(t)
        g == Ungrouped(u)
    IN  IF GroupedWell(u) /\ Len(g) >= 1 /\ AllDigits(g) /\ Len(g) <= max_str_digits
        THEN [ok |-> TRUE, value |-> SignOf(t) * DigitsValue(g, Len(g))]
        ELSE [ok |-> FALSE, value |-> 0]

RECURSIVE Pow10(_)
Pow10(k) == IF k = 0 THEN 1 ELSE 10 * Pow10(k - 1)

inf_text == <<"i", "n", "f">>

infinity_text == <<"i", "n", "f", "i", "n", "i", "t", "y">>

nan_text == <<"n", "a", "n">>

\* the decimal digits of 2^1024 - 2^970, the number halfway between the
\* largest float and 2^1024; its first digit counts 10^308
HalfwayToOverflow ==
    << 1, 7, 9, 7, 6, 9, 3, 1, 3, 4, 8, 6, 2, 3, 1, 5, 8, 0, 7, 9, 3, 7, 2, 8, 9, 7, 1, 4, 0, 5,
       3, 0, 3, 4, 1, 5, 0, 7, 9, 9, 3, 4, 1, 3, 2, 7, 1, 0, 0, 3, 7, 8, 2, 6, 9, 3, 6, 1, 7, 3,
       7, 7, 8, 9, 8, 0, 4, 4, 4, 9, 6, 8, 2, 9, 2, 7, 6, 4, 7, 5, 0, 9, 4, 6, 6, 4, 9, 0, 1, 7,
       9, 7, 7, 5, 8, 7, 2, 0, 7, 0, 9, 6, 3, 3, 0, 2, 8, 6, 4, 1, 6, 6, 9, 2, 8, 8, 7, 9, 1, 0,
       9, 4, 6, 5, 5, 5, 5, 4, 7, 8, 5, 1, 9, 4, 0, 4, 0, 2, 6, 3, 0, 6, 5, 7, 4, 8, 8, 6, 7, 1,
       5, 0, 5, 8, 2, 0, 6, 8, 1, 9, 0, 8, 9, 0, 2, 0, 0, 0, 7, 0, 8, 3, 8, 3, 6, 7, 6, 2, 7, 3,
       8, 5, 4, 8, 4, 5, 8, 1, 7, 7, 1, 1, 5, 3, 1, 7, 6, 4, 4, 7, 5, 7, 3, 0, 2, 7, 0, 0, 6, 9,
       8, 5, 5, 5, 7, 1, 3, 6, 6, 9, 5, 9, 6, 2, 2, 8, 4, 2, 9, 1, 4, 8, 1, 9, 8, 6, 0, 8, 3, 4,
       9, 3, 6, 4, 7, 5, 2, 9, 2, 7, 1, 9, 0, 7, 4, 1, 6, 8, 4, 4, 4, 3, 6, 5, 5, 1, 0, 7, 0, 4,
       3, 4, 2, 7, 1, 1, 5, 5, 9, 6, 9, 9, 5, 0, 8, 0, 9, 3, 0, 4, 2, 8, 8, 0, 1, 7, 7, 9, 0, 4,
       1, 7, 4, 4, 9, 7, 7, 9, 2 >>

\* the decimal digits of 2^-1075, the number halfway between zero and the
\* smallest float above it; its first digit counts 10^-324
HalfwayToZero ==
    << 2, 4, 7, 0, 3, 2, 8, 2, 2, 9, 2, 0, 6, 2, 3, 2, 7, 2, 0, 8, 8, 2, 8, 4, 3, 9, 6, 4, 3, 4,
       1, 1, 0, 6, 8, 6, 1, 8, 2, 5, 2, 9, 9, 0, 1, 3, 0, 7, 1, 6, 2, 3, 8, 2, 2, 1, 2, 7, 9, 2,
       8, 4, 1, 2, 5, 0, 3, 3, 7, 7, 5, 3, 6, 3, 5, 1, 0, 4, 3, 7, 5, 9, 3, 2, 6, 4, 9, 9, 1, 8,
       1, 8, 0, 8, 1, 7, 9, 9, 6, 1, 8, 9, 8, 9, 8, 2, 8, 2, 3, 4, 7, 7, 2, 2, 8, 5, 8, 8, 6, 5,
       4, 6, 3, 3, 2, 8, 3, 5, 5, 1, 7, 7, 9, 6, 9, 8, 9, 8, 1, 9, 9, 3, 8, 7, 3, 9, 8, 0, 0, 5,
       3, 9, 0, 9, 3, 9, 0, 6, 3, 1, 5, 0, 3, 5, 6, 5, 9, 5, 1, 5, 5, 7, 0, 2, 2, 6, 3, 9, 2, 2,
       9, 0, 8, 5, 8, 3, 9, 2, 4, 4, 9, 1, 0, 5, 1, 8, 4, 4, 3, 5, 9, 3, 1, 8, 0, 2, 8, 4, 9, 9,
       3, 6, 5, 3, 6, 1, 5, 2, 5, 0, 0, 3, 1, 9, 3, 7, 0, 4, 5, 7, 6, 7, 8, 2, 4, 9, 2, 1, 9, 3,
       6, 5, 6, 2, 3, 6, 6, 9, 8, 6, 3, 6, 5, 8, 4, 8, 0, 7, 5, 7, 0, 0, 1, 5, 8, 5, 7, 6, 9, 2,
       6, 9, 9, 0, 3, 7, 0, 6, 3, 1, 1, 9, 2, 8, 2, 7, 9, 5, 5, 8, 5, 5, 1, 3, 3, 2, 9, 2, 7, 8,
       3, 4, 3, 3, 8, 4, 0, 9, 3, 5, 1, 9, 7, 8, 0, 1, 5, 5, 3, 1, 2, 4, 6, 5, 9, 7, 2, 6, 3, 5,
       7, 9, 5, 7, 4, 6, 2, 2, 7, 6, 6, 4, 6, 5, 2, 7, 2, 8, 2, 7, 2, 2, 0, 0, 5, 6, 3, 7, 4, 0,
       0, 6, 4, 8, 5, 4, 9, 9, 9, 7, 7, 0, 9, 6, 5, 9, 9, 4, 7, 0, 4, 5, 4, 0, 2, 0, 8, 2, 8, 1,
       6, 6, 2, 2, 6, 2, 3, 7, 8, 5, 7, 3, 9, 3, 4, 5, 0, 7, 3, 6, 3, 3, 9, 0, 0, 7, 9, 6, 7, 7,
       6, 1, 9, 3, 0, 5, 7, 7, 5, 0, 6, 7, 4, 0, 1, 7, 6, 3, 2, 4, 6, 7, 3, 6, 0, 0, 9, 6, 8, 9,
       5, 1, 3, 4, 0, 5, 3, 5, 5, 3, 7, 4, 5, 8, 5, 1, 6, 6, 6, 1, 1, 3, 4, 2, 2, 3, 7, 6, 6, 6,
       7, 8, 6, 0, 4, 1, 6, 2, 1, 5, 9, 6, 8, 0, 4, 6, 1, 9, 1, 4, 4, 6, 7, 2, 9, 1, 8, 4, 0, 3,
       0, 0, 5, 3, 0, 0, 5, 7, 5, 3, 0, 8, 4, 9, 0, 4, 8, 7, 6, 5, 3, 9, 1, 7, 1, 1, 3, 8, 6, 5,
       9, 1, 6, 4, 6, 2, 3, 9, 5, 2, 4, 9, 1, 2, 6, 2, 3, 6, 5, 3, 8, 8, 1, 8, 7, 9, 6, 3, 6, 2,
       3, 9, 3, 7, 3, 2, 8, 0, 4, 2, 3, 8, 9, 1, 0, 1, 8, 6, 7, 2, 3, 4, 8, 4, 9, 7, 6, 6, 8, 2,
       3, 5, 0, 8, 9, 8, 6, 3, 3, 8, 8, 5, 8, 7, 9, 2, 5, 6, 2, 8, 3, 0, 2, 7, 5, 5, 9, 9, 5, 6,
       5, 7, 5, 2, 4, 4, 5, 5, 5, 0, 7, 2, 5, 5, 1, 8, 9, 3, 1, 3, 6, 9, 0, 8, 3, 6, 2, 5, 4, 7,
       7, 9, 1, 8, 6, 9, 4, 8, 6, 6, 7, 9, 9, 4, 9, 6, 8, 3, 2, 4, 0, 4, 9, 7, 0, 5, 8, 2, 1, 0,
       2, 8, 5, 1, 3, 1, 8, 5, 4, 5, 1, 3, 9, 6, 2, 1, 3, 8, 3, 7, 7, 2, 2, 8, 2, 6, 1, 4, 5, 4,
       3, 7, 6, 9, 3, 4, 1, 2, 5, 3, 2, 0, 9, 8, 5, 9, 1, 3, 2, 7, 6, 6, 7, 2, 3, 6, 3, 2, 8, 1,
       2, 5 >>

\* the digits of a decimal from its first digit that is not zero
Significant(ds) ==
    LET at == Indices(ds, LAMBDA k : ds[k] # "0")
    IN  IF at = <<>> THEN <<>> ELSE Slice(ds, at[1], Len(ds))

\* the number the exponent of a float text denotes; one of more than nine
\* digits counts as ten to the ninth, which decides in the same way
ExponentOf(expo) ==
    LET xd == Significant(Unsigned(expo))
    IN  SignOf(expo) * (IF Len(xd) > 9 THEN 1000000000 ELSE DigitsValue(xd, Len(xd)))

\* digit k of the decimal d.ddd written as the digits ds, zeros following
DigitAt(ds, k) == IF k <= Len(ds) THEN ds[k] ELSE 0

\* the order (-1, 0 or 1) of two decimals d.ddd x 10^e, each given by its
\* digits, the first not zero, and its exponent
CompareDecimal(d1, e1, d2, e2) ==
    IF e1 # e2 THEN (IF e1 > e2 THEN 1 ELSE -1)
    ELSE LET n == IF Len(d1) > Len(d2) THEN Len(d1) ELSE Len(d2)
             differ == {k \in 1..n : DigitAt(d1, k) # DigitAt(d2, k)}
         IN  IF differ = {} THEN 0
             ELSE IF \E k \in differ : /\ \A j \in differ : k <= j
                                      /\ DigitAt(d1, k) > DigitAt(d2, k)
             THEN 1 ELSE -1

\* the float nearest to the decimal sign x ip.fp x 10^e.  From the halfway
\* point to 2^1024 on it is an infinity, down to the halfway point to the
\* smallest float it is zero (ties go to the even neighbour); between the
\* two it is the decimal itself.
DecimalFloat(sign, ip, fp, e) ==
    LET sig == Significant(ip \o fp)
        first == e - Len(fp) + Len(sig) - 1
        mag == [k \in 1..Len(sig) |-> DigitVal(sig[k])]
    IN  IF sig = <<>> THEN float(0)
        ELSE IF CompareDecimal(mag, first, HalfwayToOverflow, 308) >= 0 THEN Frac(sign, 0)
        ELSE IF CompareDecimal(mag, first, HalfwayToZero, -324) <= 0 THEN float(0)
        ELSE IF e - Len(fp) >= 0
        THEN Frac(sign * DigitsValue(ip \o fp, Len(ip) + Len(fp)) * Pow10(e - Len(fp)), 1)
        ELSE Frac(sign * DigitsValue(ip \o fp, Len(ip) + Len(fp)), Pow10(Len(fp) - e))

\* float(text): surrounding whitespace ignored, optional sign, then "inf",
\* "infinity" or "nan" in any case, or digits with at most one decimal point
\* and a digit on at least one side of it, followed or not by an exponent
\* ('e' or 'E', optional sign, digits); digits come in groups separated by
\* single underscores.  ok = FALSE stands for ValueError.
py_float(s) ==
    LET t == NumberText(s)
        u == Unsigned(t)
        w == Ungrouped(u)
        es == Indices(w, LAMBDA k : w[k] \in {"e", "E"})
        mant == IF es = <<>> THEN w ELSE Slice(w, 1, es[1] - 1)
        expo == IF es = <<>> THEN <<>> ELSE Slice(w, es[1] + 1, Len(w))
        dots == Indices(mant, LAMBDA k : mant[k] = ".")
        p == IF dots = <<>> THEN Len(mant) + 1 ELSE dots[1]
        ip == Slice(mant, 1, p - 1)
        fp == Slice(mant, p + 1, Len(mant))
        xd == Unsigned(expo)
    IN  IF ~GroupedWell(u) THEN [ok |-> FALSE, value |-> float(0)]
        ELSE IF lower(w) \in {inf_text, infinity_text}
        THEN [ok |-> TRUE, value |-> Frac(SignOf(t), 0)]
        ELSE IF lower(w) = nan_text
        THEN [ok |-> TRUE, value |-> nan]
        ELSE IF /\ Len(dots) <= 1
                /\ AllDigits(ip) /\ AllDigits(fp)
                /\ Len(ip) + Len(fp) >= 1
                /\ es # <<>> => (Len(xd) >= 1 /\ AllDigits(xd))
        THEN [ok |-> TRUE, value |-> DecimalFloat(SignOf(t), ip, fp, ExponentOf(expo))]
        ELSE [ok |-> FALSE, value |-> float(0)]

(***************************************************************************)
(* bytes.decode                                                            *)
(***************************************************************************)
IsAsciiByte(b) == b \notin {"xEF", "xBB", "xBF", "xE9"}

IsLeadByte(b) == b \in {"xEF", "xE9"}

IsContByte(b) == b \in {"xBB", "xBF"}

\* the code point of a three-byte UTF-8 sequence of the model's byte tokens
Utf8Char(b1, b2, b3) ==
    CASE b1 = "xEF" /\ b2 = "xBB" /\ b3 = "xBF" -> "U+FEFF"
      [] b1 = "xEF" /\ b2 = "xBB" /\ b3 = "xBB" -> "U+FEFB"
      [] b1 = "xEF" /\ b2 = "xBF" /\ b3 = "xBB" -> "U+FFFB"
      [] b1 = "xEF" /\ b2 = "xBF" /\ b3 = "xBF" -> "U+FFFF"
      [] b1 = "xE9" /\ b2 = "xBB" /\ b3 = "xBF" -> "U+9EFF"
      [] b1 = "xE9" /\ b2 = "xBB" /\ b3 = "xBB" -> "U+9EFB"
      [] b1 = "xE9" /\ b2 = "xBF" /\ b3 = "xBB" -> "U+9FFB"
      [] OTHER -> "U+9FFF"

\* every lead byte is followed by its two continuation bytes, and every
\* continuation byte belongs to a lead byte
WellFormedUtf8(b) ==
    \A k \in 1..Len(b) :
        /\ IsLeadByte(b[k]) =>
              k + 2 <= Len(b) /\ IsContByte(b[k + 1]) /\ IsContByte(b[k + 2])
        /\ IsContByte(b[k]) =>
              \/ k > 1 /\ IsLeadByte(b[k - 1])
              \/ k > 2 /\ IsLeadByte(b[k - 2])

\* bytes.decode('utf-8'): ok = FALSE stands for UnicodeDecodeError
decode_utf8(b) ==
    IF WellFormedUtf8(b)
    THEN LET at == Indices(b, LAMBDA k : ~IsContByte(b[k]))
         IN  [ok |-> TRUE,
              text |-> [i \in 1..Len(at) |->
                          IF IsAsciiByte(b[at[i]]) THEN b[at[i]]
                          ELSE Utf8Char(b[at[i]], b[at[i] + 1], b[at[i] + 2])]]
    ELSE [ok |-> FALSE, text |-> <<>>]

Latin1Char(b) ==
    CASE b = "xEF" -> "U+00EF"
      [] b = "xBB" -> "U+00BB"
      [] b = "xBF" -> "U+00BF"
      [] b = "xE9" -> "U+00E9"
      [] OTHER -> b

\* bytes.decode('latin-1'): every byte is a character, it cannot fail
decode_latin1(b) == [ok |-> TRUE, text |-> [k \in 1..Len(b) |-> Latin1Char(b[k])]]

(***************************************************************************)
(* validators.py                                                           *)
(***************************************************************************)
\* Optional values: None, or one value
None == <<>>

Some(x) == <<x>>

\* ValidationResult.__init__
ValidationResult == [valid |-> TRUE, errors |-> <<>>, warnings |-> <<>>, data |-> None]

\* mutant: the error is recorded and valid is left as it was
add_error_keeps_valid(r, message_it, message_en) ==
    [r EXCEPT !.errors = Append(@, [it |-> message_it, en |-> message_en])]

\* ValidationResult.add_error; a message is the pair of its Italian and
\* English texts, each text the tuple of the pieces of its f-string
add_error(r, message_it, message_en) ==
    [r EXCEPT !.valid = FALSE,
              !.errors = Append(@, [it |-> message_it, en |-> message_en])]

\* ValidationResult.add_warning
add_warning(r, message_it, message_en) ==
    [r EXCEPT !.warnings = Append(@, [it |-> message_it, en |-> message_en])]

\* ValidationResult.to_dict: the JSON object, with the key data only when
\* data is not None
to_dict(r) ==
    IF r.data # None
    THEN [valid |-> r.valid, errors |-> r.errors, warnings |-> r.warnings, data |-> r.data[1]]
    ELSE [valid |-> r.valid, errors |-> r.errors, warnings |-> r.warnings]

\* mutant: the comma is not read as the decimal point
parse_european_float_dot_only(value) == py_float(value)

parse_european_float(value) == py_float(replace(value, ",", "."))

\* file_content.decode('utf-8'), falling back to decode('latin-1')
DecodeContent(file_content) ==
    IF file_content.type = "bytes"
    THEN LET u == decode_utf8(file_content.units)
         IN  IF u.ok THEN u ELSE decode_latin1(file_content.units)
    ELSE [ok |-> TRUE, text |-> file_content.units]

\* Remove BOM if present
RemoveBom(text) == IF startswith(text, "U+FEFF") THEN Slice(text, 2, Len(text)) ELSE text

\* [line.strip() for line in file_content.strip().split('\n') if line.strip()]
NonBlankLines(text) ==
    LET raw == split(strip(text), "\n")
        stripped == [k \in 1..Len(raw) |-> strip(raw[k])]
    IN  SelectSeq(stripped, LAMBDA l : Len(l) > 0)

\* mutant: only a file that is too long is reported
CheckRowCount_too_long_only(r, lines) ==
    IF Len(lines) > 12
    THEN add_error(r,
            <<"Il file deve contenere esattamente 12 righe. Trovate: ", Len(lines)>>,
            <<"File must contain exactly 12 rows. Found: ", Len(lines)>>)
    ELSE r

\* Check row count
CheckRowCount(r, lines) ==
    IF Len(lines) # 12
    THEN add_error(r,
            <<"Il file deve contenere esattamente 12 righe. Trovate: ", Len(lines)>>,
            <<"File must contain exactly 12 rows. Found: ", Len(lines)>>)
    ELSE r

\* mutant: a row whose index is out of sequence is reported and left there,
\* its value unexamined
ValidateRow_skip_value(acc, i, line) ==
    LET parts == split(line, "\t")
    IN  IF Len(parts) # 2
        THEN [acc EXCEPT !.result = add_error(@,
                <<"Riga ", i + 1, ": formato non valido. Attesi 2 campi separati da tab, trovati ", Len(parts)>>,
                <<"Row ", i + 1, ": invalid format. Expected 2 tab-separated fields, found ", Len(parts)>>)]
        ELSE LET index == py_int(strip(parts[1]))
                 value == parse_european_float(strip(parts[2]))
             IN  IF ~index.ok
                 THEN [acc EXCEPT !.result = add_error(@,
                         <<"Riga ", i + 1, ": indice non valido '", strip(parts[1]), "'. Deve essere un intero.">>,
                         <<"Row ", i + 1, ": invalid index '", strip(parts[1]), "'. Must be an integer.">>)]
                 ELSE IF index.value # i
                 THEN [acc EXCEPT !.result = add_error(@,
                         <<"Riga ", i + 1, ": indice non sequenziale. Atteso ", i, ", trovato ", index.value>>,
                         <<"Row ", i + 1, ": non-sequential index. Expected ", i, ", found ", index.value>>)]
                 ELSE IF value.ok
                 THEN [result |-> acc.result,
                       parsed_data |-> Append(acc.parsed_data,
                                          [index |-> index.value, value |-> value.value])]
                 ELSE [result |-> add_error(acc.result,
                               <<"Riga ", i + 1, ": valore numerico non valido '", strip(parts[2]), "'">>,
                               <<"Row ", i + 1, ": invalid numeric value '", strip(parts[2]), "'">>),
                       parsed_data |-> acc.parsed_data]

\* mutant: the index is parsed and never compared with the row position
ValidateRow_any_index(acc, i, line) ==
    LET parts == split(line, "\t")
    IN  IF Len(parts) # 2
        THEN [acc EXCEPT !.result = add_error(@,
                <<"Riga ", i + 1, ": formato non valido. Attesi 2 campi separati da tab, trovati ", Len(parts)>>,
                <<"Row ", i + 1, ": invalid format. Expected 2 tab-separated fields, found ", Len(parts)>>)]
        ELSE LET index == py_int(strip(parts[1]))
                 value == parse_european_float(strip(parts[2]))
             IN  IF ~index.ok
                 THEN [acc EXCEPT !.result = add_error(@,
                         <<"Riga ", i + 1, ": indice non valido '", strip(parts[1]), "'. Deve essere un intero.">>,
                         <<"Row ", i + 1, ": invalid index '", strip(parts[1]), "'. Must be an integer.">>)]
                 ELSE IF value.ok
                 THEN [result |-> acc.result,
                       parsed_data |-> Append(acc.parsed_data,
                                          [index |-> index.value, value |-> value.value])]
                 ELSE [result |-> add_error(acc.result,
                               <<"Riga ", i + 1, ": valore numerico non valido '", strip(parts[2]), "'">>,
                               <<"Row ", i + 1, ": invalid numeric value '", strip(parts[2]), "'">>),
                       parsed_data |-> acc.parsed_data]

\* One turn of the row loop, for row i (0-based) holding `line`; acc carries
\* the result and parsed_data
ValidateRow(acc, i, line) ==
    LET parts == split(line, "\t")
    IN  IF Len(parts) # 2
        THEN [acc EXCEPT !.result = add_error(@,
                <<"Riga ", i + 1, ": formato non valido. Attesi 2 campi separati da tab, trovati ", Len(parts)>>,
                <<"Row ", i + 1, ": invalid format. Expected 2 tab-separated fields, found ", Len(parts)>>)]
        ELSE LET index == py_int(strip(parts[1]))
             IN  IF ~index.ok
                 THEN [acc EXCEPT !.result = add_error(@,
                         <<"Riga ", i + 1, ": indice non valido '", strip(parts[1]), "'. Deve essere un intero.">>,
                         <<"Row ", i + 1, ": invalid index '", strip(parts[1]), "'. Must be an integer.">>)]
                 ELSE LET r1 == IF index.value # i
                                THEN add_error(acc.result,
                                        <<"Riga ", i + 1, ": indice non sequenziale. Atteso ", i, ", trovato ", index.value>>,
                                        <<"Row ", i + 1, ": non-sequential index. Expected ", i, ", found ", index.value>>)
                                ELSE acc.result
                          value == parse_european_float(strip(parts[2]))
                      IN  IF value.ok
                          THEN [result |-> r1,
                                parsed_data |-> Append(acc.parsed_data,
                                                   [index |-> index.value, value |-> value.value])]
                          ELSE [result |-> add_error(r1,
                                        <<"Riga ", i + 1, ": valore numerico non valido '", strip(parts[2]), "'">>,
                                        <<"Row ", i + 1, ": invalid numeric value '", strip(parts[2]), "'">>),
                                parsed_data |-> acc.parsed_data]

\* for i, line in enumerate(lines), from row i on
RECURSIVE ValidateRows(_, _, _)
ValidateRows(acc, lines, i) ==
    IF i >= Len(lines) THEN acc
    ELSE ValidateRows(ValidateRow(acc, i, lines[i + 1]), lines, i + 1)

\* mutant: the parsed rows are stored whatever the outcome
StoreParsedData_always(acc) == [acc.result EXCEPT !.data = Some(acc.parsed_data)]

\* Store parsed data if validation passed
StoreParsedData(acc) ==
    IF acc.result.valid THEN [acc.result EXCEPT !.data = Some(acc.parsed_data)]
    ELSE acc.result

validate_data_file(file_content) ==
    LET decoded == DecodeContent(file_content)
    IN  IF ~decoded.ok
        THEN add_error(ValidationResult,
                <<"Impossibile decodificare il file. Usare codifica UTF-8 o Latin-1.">>,
                <<"Unable to decode file. Use UTF-8 or Latin-1 encoding.">>)
        ELSE LET lines == NonBlankLines(RemoveBom(decoded.text))
                 counted == CheckRowCount(ValidationResult, lines)
             IN  StoreParsedData(
                    ValidateRows([result |-> counted, parsed_data |-> <<>>], lines, 0))

(***************************************************************************)
(* Names and texts as character sequences                                  *)
(***************************************************************************)

pioggia == <<"p", "i", "o", "g", "g", "i", "a">>

falda == <<"f", "a", "l", "d", "a">>

spostamento == <<"s", "p", "o", "s", "t", "a", "m", "e", "n", "t", "o">>

\* series types the code has no names for
neve == <<"n", "e", "v", "e">>

ete == <<"U+00E9", "t", "U+00E9">>

rainfall == <<"r", "a", "i", "n", "f", "a", "l", "l">>

water_table == <<"w", "a", "t", "e", "r", " ", "t", "a", "b", "l", "e">>

displacement == <<"d", "i", "s", "p", "l", "a", "c", "e", "m", "e", "n", "t">>

import_prefix == <<"i", "m", "p", "o", "r", "t", "_">>

\* str(uuid) of the datasets
Uuid1 ==
    <<"5", "5", "0", "e", "8", "4", "0", "0", "-", "e", "2", "9", "b",
      "-", "4", "1", "d", "4", "-", "a", "7", "1", "6", "-", "4", "4",
      "6", "6", "5", "5", "4", "4", "0", "0", "0", "0">>

Uuid2 ==
    <<"7", "c", "9", "e", "6", "6", "7", "9", "-", "7", "4", "2", "5",
      "-", "4", "0", "d", "e", "-", "9", "4", "4", "b", "-", "e", "0",
      "7", "f", "c", "1", "f", "9", "0", "a", "e", "7">>

Uuids == {Uuid1, Uuid2}

(***************************************************************************)
(* importers.py                                                            *)
(***************************************************************************)
\* mutant: the reference name goes into the table name as it is
get_table_name_unsanitized(uuid, data_ref_name) ==
    import_prefix \o remove(uuid, "-") \o <<"_">> \o data_ref_name

get_table_name(uuid, data_ref_name) ==
    LET uuid_clean == remove(uuid, "-")
        low == lower(data_ref_name)
        safe_ref_name == [k \in 1..Len(low) |->
                            IF isalnum(low[k]) \/ low[k] = "_" THEN low[k] ELSE "_"]
    IN  import_prefix \o uuid_clean \o <<"_">> \o safe_ref_name

\* The database: a function from the names of the tables that exist to their
\* rows in insertion order, a row being [id, index, value] (created_at is
\* never read).

\* mutant: the table is not dropped
DropTableIfExists_keep(d, table_name) == d

\* DROP TABLE IF EXISTS
DropTableIfExists(d, table_name) == [n \in (DOMAIN d) \ {table_name} |-> d[n]]

\* CREATE TABLE, on a name that is free
CreateTable(d, table_name) ==
    [n \in (DOMAIN d) \cup {table_name} |-> IF n = table_name THEN <<>> ELSE d[n]]

\* INSERT INTO table (index, value): id is the next value of the table's serial
InsertRow(d, table_name, index, value) ==
    [d EXCEPT ![table_name] = Append(@, [id |-> Len(@) + 1, index |-> index, value |-> value])]

create_import_table(d, uuid, data_ref_name) ==
    LET table_name == get_table_name(uuid, data_ref_name)
    IN  [db |-> CreateTable(DropTableIfExists(d, table_name), table_name),
         table_name |-> table_name]

\* for row in data: INSERT, from row k on
RECURSIVE InsertRows(_, _, _, _)
InsertRows(d, table_name, data, k) ==
    IF k > Len(data) THEN d
    ELSE InsertRows(InsertRow(d, table_name, data[k].index, data[k].value),
                    table_name, data, k + 1)

\* import_data: the database afterwards and the dictionary returned
import_data(d, uuid, data_ref_name, data) ==
    LET created == create_import_table(d, uuid, data_ref_name)
    IN  [db |-> InsertRows(created.db, created.table_name, data, 1),
         ret |-> [table_name |-> created.table_name, rows_imported |-> Len(data)]]

(***************************************************************************)
(* data_retrieval.py                                                       *)
(***************************************************************************)
\* mutant: a table without rows does not count as existing
table_exists_with_rows(d, table_name) == table_name \in DOMAIN d /\ d[table_name] # <<>>

table_exists(d, table_name) == table_name \in DOMAIN d

\* data_type_names.get(data_type, (data_type, data_type))
data_type_names(data_type) ==
    CASE data_type = pioggia     -> [it |-> pioggia, en |-> rainfall]
      [] data_type = falda       -> [it |-> falda, en |-> water_table]
      [] data_type = spostamento -> [it |-> spostamento, en |-> displacement]
      [] OTHER                   -> [it |-> data_type, en |-> data_type]

\* the two texts of the "data not found" message of a series type
NotFoundMessage(data_type) ==
    LET names == data_type_names(data_type)
    IN  [it |-> <<"Dati di ", names.it, " non trovati per questo dataset.">>,
         en |-> <<capitalize(names.en), " data not found for this dataset.">>]

\* mutant: the rows come back in insertion order (no ORDER BY)
OrderByIndex_unordered(rows) == {rows}

\* SELECT ... ORDER BY index ASC: the orders the database may return the rows
\* in.  Rows of equal index come in any order; with distinct indices the
\* order is the one ascending order.
OrderByIndex(rows) ==
    LET n == Len(rows)
        distinct == \A a, b \in 1..n : a # b => rows[a].index # rows[b].index
        rank(a) == Cardinality({b \in 1..n : rows[b].index < rows[a].index}) + 1
    IN  IF distinct
        THEN {[i \in 1..n |-> rows[CHOOSE a \in 1..n : rank(a) = i]]}
        ELSE {[i \in 1..n |-> rows[p[i]]] :
                p \in {q \in [1..n -> 1..n] :
                         /\ \A a, b \in 1..n : a # b => q[a] # q[b]
                         /\ \A a, b \in 1..n : a < b => rows[q[a]].index <= rows[q[b]].index}}

\* mutant: a missing table reads as no rows
MissingTable_empty(data_type) == [raised |-> "none", ret |-> <<>>]

\* get_imported_data, lines 59-69: the DataNotFoundError raised when
\* table_exists answers no
MissingTable(data_type) ==
    [raised |-> "DataNotFoundError",
     message_it |-> NotFoundMessage(data_type).it,
     message_en |-> NotFoundMessage(data_type).en]

\* get_imported_data, lines 71-79: the lists of (index, value) the SELECT on
\* an existing table may give
SelectRows(d, table_name) ==
    {[i \in 1..Len(rows) |-> <<rows[i].index, rows[i].value>>]
        : rows \in OrderByIndex(d[table_name])}

\* mutant: the message of a missing type goes to the front of the list
CheckOneRequired_front(d, uuid, data_type, errors) ==
    IF ~table_exists(d, get_table_name(uuid, data_type))
    THEN <<NotFoundMessage(data_type)>> \o errors
    ELSE errors

\* mutant: only the first missing type gets its message
CheckOneRequired_first_only(d, uuid, data_type, errors) ==
    IF ~table_exists(d, get_table_name(uuid, data_type)) /\ errors = <<>>
    THEN Append(errors, NotFoundMessage(data_type))
    ELSE errors

\* check_required_data, lines 121-127: one pass of the loop
CheckOneRequired(d, uuid, data_type, errors) ==
    IF ~table_exists(d, get_table_name(uuid, data_type))
    THEN Append(errors, NotFoundMessage(data_type))
    ELSE errors


(***************************************************************************)
(* function_views.py: interpolate_to_integer_grid                          *)
(***************************************************************************)
\* while k < len(x_vals) and x_vals[k] <= x: k += 1   (k counts from 0;
\* x_vals[k] of the code is x_vals[k + 1] here)
RECURSIVE BracketIndex(_, _, _)
BracketIndex(x_vals, x, k) ==
    IF k < Len(x_vals) /\ FLe(x_vals[k + 1], x)
    THEN BracketIndex(x_vals, x, k + 1)
    ELSE k

\* mutant: the two weights are exchanged
LinearInterpolation_swapped(x, x0, y0, x1, y1) ==
    DAdd(DDiv(DMul(y0, DSub(x, x0)), DSub(x1, x0)),
         DDiv(DMul(y1, DSub(x, x1)), DSub(x0, x1)))

\* y = y0 * (x - x1) / (x0 - x1) + y1 * (x - x0) / (x1 - x0), line 70: seven
\* operations on doubles, each rounded
LinearInterpolation(x, x0, y0, x1, y1) ==
    DAdd(DDiv(DMul(y0, DSub(x, x1)), DSub(x0, x1)),
         DDiv(DMul(y1, DSub(x, x0)), DSub(x1, x0)))

\* the body of the loop over range(grid_size): the value appended for i
GridPoint(x_vals, y_vals, i) ==
    LET x == float(i)
        n == Len(x_vals)
    IN  IF FLe(x, x_vals[1]) THEN ToDouble(y_vals[1])
        ELSE IF FGe(x, x_vals[n]) THEN ToDouble(y_vals[n])
        ELSE LET k == BracketIndex(x_vals, x, 0)
             IN  LinearInterpolation(ToDouble(x),
                                     ToDouble(x_vals[k]), ToDouble(y_vals[k]),
                                     ToDouble(x_vals[k + 1]), ToDouble(y_vals[k + 1]))

\* mutant: grid points at or beyond the last sample are not clamped
GridPointRaises_no_upper_clamp(x_vals, i) ==
    LET x == float(i)
        n == Len(x_vals)
    IN  IF FLe(x, x_vals[1]) THEN "none"
        ELSE LET k == BracketIndex(x_vals, x, 0)
             IN  IF k >= n THEN "IndexError"
                 ELSE IF x_vals[IF k = 0 THEN n ELSE k] = x_vals[k + 1]
                 THEN "ZeroDivisionError"
                 ELSE "none"

\* the exception the body of the loop raises for grid point i, "none" if it
\* appends a value: x_vals[k] past the end is an IndexError, x_vals[k - 1]
\* with k = 0 reads the last sample, and a division by x1 - x0 = 0.0 is a
\* ZeroDivisionError
GridPointRaises(x_vals, i) ==
    LET x == float(i)
        n == Len(x_vals)
    IN  IF FLe(x, x_vals[1]) THEN "none"
        ELSE IF FGe(x, x_vals[n]) THEN "none"
        ELSE LET k == BracketIndex(x_vals, x, 0)
             IN  IF k >= n THEN "IndexError"
                 ELSE IF x_vals[IF k = 0 THEN n ELSE k] = x_vals[k + 1]
                 THEN "ZeroDivisionError"
                 ELSE "none"

\* the exception interpolate_to_integer_grid raises: that of the first grid
\* point whose turn of the loop raises
interpolate_raises(data, grid_size) ==
    LET x_vals == [k \in 1..Len(data) |-> float(data[k][1])]
        failing == {i \in 0..(grid_size - 1) : GridPointRaises(x_vals, i) # "none"}
    IN  IF data = <<>> \/ failing = {} THEN "none"
        ELSE GridPointRaises(x_vals, CHOOSE i \in failing : \A j \in failing : i <= j)

\* data is a list of (index, value) pairs; the list returned holds doubles
interpolate_to_integer_grid(data, grid_size) ==
    IF data = <<>>
    THEN [i \in 1..grid_size |-> DZero(0)]
    ELSE LET x_vals == [k \in 1..Len(data) |-> float(data[k][1])]
             y_vals == [k \in 1..Len(data) |-> data[k][2]]
         IN  [i \in 1..grid_size |-> GridPoint(x_vals, y_vals, i - 1)]

(***************************************************************************)
(* request.data of a JSON request: a dictionary from the keys present to   *)
(* JSON values.  A JSON value is [t, v]: null, a string (its text, the     *)
(* sequence of its characters), a number, an object whose members are      *)
(* numbers, or an array of JSON values.  (true and false are the numbers 1 *)
(* and 0 to every test the views make of them.)                            *)
(***************************************************************************)
JNull == [t |-> "null", v |-> 0]

JStr(s) == [t |-> "str", v |-> s]

JNum(x) == [t |-> "num", v |-> x]

JDict(d) == [t |-> "dict", v |-> d]

JList(items) == [t |-> "list", v |-> items]

\* the text of a string literal of the source
Chars(s) == [k \in 1..Len(s) |-> SubSeq(s, k, k)]

\* request.data.get(key): None when the key is absent
get(data, key) == IF key \in DOMAIN data THEN data[key] ELSE JNull

\* request.data.get(key, default)
get_default(data, key, default) == IF key \in DOMAIN data THEN data[key] ELSE default

\* not x
falsy(x) ==
    \/ x.t = "null"
    \/ x.t = "str" /\ x.v = <<>>
    \/ x.t = "num" /\ x.v = float(0)
    \/ x.t = "dict" /\ DOMAIN x.v = {}
    \/ x.t = "list" /\ x.v = <<>>

\* x == s, s being a string literal of the source
IsStr(x, s) == x.t = "str" /\ x.v = Chars(s)

\* ', '.join(items), as the pieces of the text
RECURSIVE join(_, _)
join(sep, items) ==
    IF items = <<>> THEN <<>>
    ELSE IF Len(items) = 1 THEN items
    ELSE <<items[1], sep>> \o join(sep, Tail(items))

\* sub in s, of two texts
IsSubstring(sub, s) ==
    \E i \in 0..(Len(s) - Len(sub)) : SubSeq(s, i + 1, i + Len(sub)) = sub

\* k in d: k is a key of the dictionary d, a substring of the string d, or
\* an element of the list d
Contains(d, k) ==
    IF d.t = "dict" THEN k \in DOMAIN d.v
    ELSE IF d.t = "str" THEN IsSubstring(Chars(k), d.v)
    ELSE \E i \in 1..Len(d.v) : IsStr(d.v[i], k)

\* [k for k in required if k not in d]: the keys that a dictionary lacks,
\* that a string does not contain or that are not in a list; a number and
\* None are not containers, and the test raises TypeError
missing_keys(required, d) ==
    IF d.t \in {"dict", "str", "list"}
    THEN [raised |-> "none", missing |-> SelectSeq(required, LAMBDA k : ~Contains(d, k))]
    ELSE [raised |-> "TypeError", missing |-> <<>>]

\* str.replace(sub, '')
RECURSIVE RemoveSub(_, _)
RemoveSub(s, sub) ==
    IF Len(s) < Len(sub) THEN s
    ELSE IF SubSeq(s, 1, Len(sub)) = sub
         THEN RemoveSub(SubSeq(s, Len(sub) + 1, Len(s)), sub)
         ELSE <<s[1]>> \o RemoveSub(Tail(s), sub)

\* str.strip('{}')
strip_braces(s) ==
    LET keep == Indices(s, LAMBDA k : s[k] \notin {"{", "}"})
    IN  IF keep = <<>> THEN <<>> ELSE SubSeq(s, keep[1], keep[Len(keep)])

IsHexDigit(c) == IsDigit(c) \/ LowerChar(c) \in {"a", "b", "c", "d", "e", "f"}

\* int(text, 16) after the strip: a '+' or '-' may lead
HexUnsigned(t) == IF Len(t) >= 1 /\ t[1] \in {"+", "-"} THEN Slice(t, 2, Len(t)) ELSE t

\* int(text, 16) after the sign: a 0x or 0X may lead, and one underscore may
\* follow it
HexBody(u) ==
    IF Len(u) >= 2 /\ u[1] = "0" /\ u[2] \in {"x", "X"}
    THEN Slice(u, IF Len(u) >= 3 /\ u[3] = "_" THEN 4 ELSE 3, Len(u))
    ELSE u

\* int(text, 16): underscores stand singly and between two digits
HexGrouped(body) ==
    \A k \in 1..Len(body) :
        body[k] = "_" => (k > 1 /\ k < Len(body) /\ body[k - 1] # "_" /\ body[k + 1] # "_")

\* int(text, 16) of the text after the sign and the prefix: digits there
\* must be, every one hexadecimal, the underscores single
HexParsed(body) ==
    [ok |-> /\ HexGrouped(body)
            /\ remove(body, "_") # <<>>
            /\ \A k \in 1..Len(body) : body[k] = "_" \/ IsHexDigit(body[k]),
     digits |-> remove(body, "_")]

\* int(text, 16): the hexadecimal digits the literal stands for.  The text is
\* stripped; a sign may lead, then a 0x or 0X, and single underscores may
\* stand between digits and after the 0x.  (A '-' cannot lead here: uuid.UUID
\* has removed the hyphens.)
HexLiteral(text) == HexParsed(HexBody(HexUnsigned(NumberText(text))))

\* str() of a UUID of the given hexadecimal digits: lower case, padded with
\* zeros on the left to 32 digits, grouped 8-4-4-4-12
UUIDText(digits) ==
    LET x == [k \in 1..(32 - Len(digits)) |-> "0"] \o lower(digits)
    IN  SubSeq(x, 1, 8) \o <<"-">> \o SubSeq(x, 9, 12) \o <<"-">>
        \o SubSeq(x, 13, 16) \o <<"-">> \o SubSeq(x, 17, 20) \o <<"-">> \o SubSeq(x, 21, 32)

\* the hexadecimal text uuid.UUID(hex) hands to int(): 'urn:' and 'uuid:'
\* removed, braces stripped from the ends, hyphens removed
UUIDHex(hex) ==
    remove(strip_braces(RemoveSub(RemoveSub(hex, <<"u", "r", "n", ":">>),
                                  <<"u", "u", "i", "d", ":">>)), "-")

\* uuid.UUID(hex) once the hexadecimal text is cut out: 32 characters that
\* int() reads, or ValueError
UUIDFrom(h) ==
    LET int == HexLiteral(h)
    IN  IF Len(h) # 32 \/ ~int.ok
        THEN [raised |-> "ValueError", uuid |-> <<>>]
        ELSE [raised |-> "none", uuid |-> UUIDText(int.digits)]

\* uuid.UUID(hex) of a string, and str() of the result: the canonical text,
\* or the ValueError raised
UUID(hex) == UUIDFrom(UUIDHex(hex))

(***************************************************************************)
(* function_views.py: the structural checks of CalibrateView.post and      *)
(* PrevisionView.post.  Each returns the exception that ends the handler   *)
(* there, if any, the errors collected and the values read.                *)
(***************************************************************************)
UuidRequired ==
    [it |-> <<"Campo 'dataset_uuid' obbligatorio.">>,
     en |-> <<"'dataset_uuid' field is required.">>]

UuidInvalid ==
    [it |-> <<"UUID dataset non valido.">>, en |-> <<"Invalid dataset UUID.">>]

ModeInvalid ==
    [it |-> <<"Modalit", "U+00E0", " non valida. Usare 'automatic' o 'manual'.">>,
     en |-> <<"Invalid mode. Use 'automatic' or 'manual'.">>]

PrevisionTypeInvalid ==
    [it |-> <<"Tipo previsione non valido. Usare 'standard' o 'best_fit_viscosity'.">>,
     en |-> <<"Invalid prevision type. Use 'standard' or 'best_fit_viscosity'.">>]

FieldRequired(field) ==
    [it |-> <<"Campo '", field, "' obbligatorio.">>,
     en |-> <<"'", field, "' field is required.">>]

CalibrationParamsRequired ==
    [it |-> <<"Campo 'calibration_params' obbligatorio per modalit", "U+00E0", " manuale.">>,
     en |-> <<"'calibration_params' field is required for manual mode.">>]

\* f"Parametri geometria mancanti: {', '.join(missing)}" and the like
ParamsMissing(it, en, missing) ==
    [it |-> <<"Parametri ", it, " mancanti: ">> \o join(", ", missing),
     en |-> <<"Missing ", en, " parameters: ">> \o join(", ", missing)]

required_geometry == <<"l1", "l2", "h", "beta1", "beta2", "i_pc">>

required_calibration == <<"hs", "kt", "an", "ho", "hmin">>

required_geotechnical == <<"gamma_sat", "gamma_w", "fi", "c", "mu">>

\* mutant: any value that is not a valid UUID string is reported as invalid
CheckDatasetUuid_any_type(data) ==
    LET dataset_uuid == get(data, "dataset_uuid")
    IN  IF falsy(dataset_uuid)
        THEN [raised |-> "none", errors |-> <<UuidRequired>>, uuid |-> <<>>]
        ELSE IF dataset_uuid.t # "str"
        THEN [raised |-> "none", errors |-> <<UuidInvalid>>, uuid |-> <<>>]
        ELSE LET parsed == UUID(dataset_uuid.v)
             IN  IF parsed.raised = "ValueError"
                 THEN [raised |-> "none", errors |-> <<UuidInvalid>>, uuid |-> <<>>]
                 ELSE [raised |-> "none", errors |-> <<>>, uuid |-> parsed.uuid]

\* dataset_uuid = request.data.get('dataset_uuid') ... UUID(dataset_uuid):
\* a value that is not a string has no .replace, and the AttributeError is
\* not among the exceptions caught
CheckDatasetUuid(data) ==
    LET dataset_uuid == get(data, "dataset_uuid")
    IN  IF falsy(dataset_uuid)
        THEN [raised |-> "none", errors |-> <<UuidRequired>>, uuid |-> <<>>]
        ELSE IF dataset_uuid.t # "str"
        THEN [raised |-> "AttributeError", errors |-> <<>>, uuid |-> <<>>]
        ELSE LET parsed == UUID(dataset_uuid.v)
             IN  IF parsed.raised = "ValueError"
                 THEN [raised |-> "none", errors |-> <<UuidInvalid>>, uuid |-> <<>>]
                 ELSE [raised |-> "none", errors |-> <<>>, uuid |-> parsed.uuid]

\* missing = [...]; if missing: errors.append(...): the exception of the
\* comprehension escapes, and keys that are missing are one error
CheckMissing(found, it, en) ==
    IF found.raised # "none" THEN [raised |-> found.raised, errors |-> <<>>]
    ELSE IF found.missing # <<>>
    THEN [raised |-> "none", errors |-> <<ParamsMissing(it, en, found.missing)>>]
    ELSE [raised |-> "none", errors |-> <<>>]

\* the check of a parameter object: required, and with all its keys; what
\* it raises, if anything, and the errors it appends
CheckParams(data, field, required, it, en) ==
    IF falsy(get(data, field)) THEN [raised |-> "none", errors |-> <<FieldRequired(field)>>]
    ELSE CheckMissing(missing_keys(required, get(data, field)), it, en)

\* mode = request.data.get('mode', 'automatic') and its check
CheckMode(data) ==
    LET mode == get_default(data, "mode", JStr(Chars("automatic")))
    IN  IF IsStr(mode, "automatic") \/ IsStr(mode, "manual") THEN <<>> ELSE <<ModeInvalid>>

\* the calibration_params checks of manual mode
CheckCalibrationParams(data) ==
    LET mode == get_default(data, "mode", JStr(Chars("automatic")))
        calibration_params == get(data, "calibration_params")
    IN  IF ~IsStr(mode, "manual") THEN [raised |-> "none", errors |-> <<>>]
        ELSE IF falsy(calibration_params)
        THEN [raised |-> "none", errors |-> <<CalibrationParamsRequired>>]
        ELSE CheckMissing(missing_keys(required_calibration, calibration_params),
                          "calibrazione", "calibration")

\* the checks of a handler one after the other: the first exception raised
\* ends them, otherwise the errors of all of them are collected
\* one check and then the rest: an exception of the first ends the handler
\* before the rest runs
Then(first, rest) ==
    IF first.raised # "none" THEN [raised |-> first.raised, errors |-> <<>>]
    ELSE IF rest.raised # "none" THEN rest
    ELSE [raised |-> "none", errors |-> first.errors \o rest.errors]

RECURSIVE InOrder(_)
InOrder(checks) ==
    IF checks = <<>> THEN [raised |-> "none", errors |-> <<>>]
    ELSE Then(checks[1], InOrder(Tail(checks)))

\* the outcome of a check that raises nothing
Checked(errors) == [raised |-> "none", errors |-> errors]

\* the outcome of the checks of a handler: the check of dataset_uuid, which
\* also reads the UUID, then the others
Structural(dataset_uuid, checks) ==
    IF Then(dataset_uuid, checks).raised # "none"
    THEN [raised |-> Then(dataset_uuid, checks).raised, errors |-> <<>>, uuid |-> <<>>]
    ELSE [raised |-> "none", errors |-> dataset_uuid.errors \o checks.errors,
          uuid |-> dataset_uuid.uuid]

\* CalibrateView.post, lines 91-151
CalibrateStructural(data) ==
    Structural(CheckDatasetUuid(data),
               InOrder(<<Checked(CheckMode(data)),
                         CheckParams(data, "geometry", required_geometry,
                                     "geometria", "geometry"),
                         CheckCalibrationParams(data)>>))

CheckPrevisionType(data) ==
    LET prevision_type == get_default(data, "prevision_type", JStr(Chars("standard")))
    IN  IF IsStr(prevision_type, "standard") \/ IsStr(prevision_type, "best_fit_viscosity")
        THEN <<>> ELSE <<PrevisionTypeInvalid>>

\* analysis_settings = request.data.get('analysis_settings', {});
\* num_harmonics = analysis_settings.get('num_harmonics', 100): None has no .get
NumHarmonics(data) ==
    LET analysis_settings == get_default(data, "analysis_settings", JDict(<<>>))
    IN  IF analysis_settings.t # "dict" THEN [raised |-> "AttributeError", value |-> float(0)]
        ELSE IF "num_harmonics" \in DOMAIN analysis_settings.v
        THEN [raised |-> "none", value |-> analysis_settings.v["num_harmonics"]]
        ELSE [raised |-> "none", value |-> float(100)]

\* PrevisionView.post, lines 245-322
PrevisionStructural(data) ==
    Structural(CheckDatasetUuid(data),
               InOrder(<<Checked(CheckPrevisionType(data)),
                         CheckParams(data, "geometry", required_geometry,
                                     "geometria", "geometry"),
                         CheckParams(data, "geotechnical_params", required_geotechnical,
                                     "geotecnici", "geotechnical"),
                         CheckParams(data, "model_params", required_calibration,
                                     "modello", "model"),
                         [raised |-> NumHarmonics(data).raised, errors |-> <<>>]>>))

(***************************************************************************)
(* dotnet_bridge.py: the calculator.  The engine is a black box: an        *)
(* invocation either raises or returns an array.  Each method of the       *)
(* bridge is split at its engine invocation into the arguments it passes   *)
(* and what it makes of the result; an exception on the Python side of a   *)
(* method is reported as [raised |-> its text].                            *)
(***************************************************************************)
\* [v for _, v in data]
values_of(data) == [k \in 1..Len(data) |-> data[k][2]]

\* mutant: the time indices start at 1
time_indices_from_one(n) == [k \in 1..n |-> float(k)]

\* [float(i) for i in range(n)]
time_indices(n) == [k \in 1..n |-> float(k - 1)]

\* a < b of two floats: no comparison with nan holds
FLt(a, b) ==
    /\ ~IsNan(a) /\ ~IsNan(b) /\ a # b
    /\ \/ b = inf
       \/ a = FNeg(inf)
       \/ IsFinite(a) /\ IsFinite(b) /\ a.n * b.d < b.n * a.d

\* one turn of min(): the item replaces the smallest so far when it is less
Smaller(item, m) == IF FLt(item, m) THEN item ELSE m

\* one turn of max(): the item replaces the largest so far when it is greater
Larger(item, m) == IF FLt(m, item) THEN item ELSE m

\* min(xs) is FMinOf(xs, Len(xs)): the smallest of the first k items, the
\* first item kept until a later one is less than it
RECURSIVE FMinOf(_, _)
FMinOf(xs, k) == IF k = 1 THEN xs[1] ELSE Smaller(xs[k], FMinOf(xs, k - 1))

\* max(xs) is FMaxOf(xs, Len(xs))
RECURSIVE FMaxOf(_, _)
FMaxOf(xs, k) == IF k = 1 THEN xs[1] ELSE Larger(xs[k], FMaxOf(xs, k - 1))

DotNetError(message_it, message_en, details) ==
    [message_it |-> message_it, message_en |-> message_en, details |-> details]

AutoCalibrationError(details) ==
    DotNetError("Errore durante la calibrazione automatica.",
                "Error during automatic calibration.", Some(details))

WaterTableError(details) ==
    DotNetError("Errore durante il calcolo della falda.",
                "Error during water table calculation.", Some(details))

PrevisionError(details) ==
    DotNetError("Errore durante il calcolo della previsione.",
                "Error during prevision calculation.", Some(details))

\* Path.parent: the path without its last component; the root is its own
\* parent.  A path is the sequence of its components below the root.
parent(path) == IF path = <<>> THEN <<>> ELSE SubSeq(path, 1, Len(path) - 1)

\* str() of an absolute path
RECURSIVE PathText(_)
PathText(path) ==
    IF path = <<>> THEN "/"
    ELSE IF Len(path) = 1 THEN "/" \o path[1]
    ELSE PathText(parent(path)) \o "/" \o path[Len(path)]

\* Path(__file__).parent.parent.parent / 'mode2.exe', line 27
MODE2_EXE_PATH(module_file) == Append(parent(parent(parent(module_file))), "mode2.exe")

\* where dotnet_bridge.py of the package mode2.api is installed
ModuleFiles ==
    {<<"srv", "app", "src", "mode2", "api", "dotnet_bridge.py">>,
     <<"mode2", "api", "dotnet_bridge.py">>}

\* _load_assembly_types, lines 47-52
AssemblyNotFound(module_file) ==
    DotNetError("Assembly MODE II non trovato.", "MODE II assembly not found.",
                Some("Expected at: " \o PathText(MODE2_EXE_PATH(module_file))))

TypesNotFound ==
    DotNetError("Tipi di calcolo non trovati nell'assembly.",
                "Calculation types not found in assembly.", None)

\* the initial guesses of calibrate_water_table_auto, lines 162-163
kt_init == Frac(29, 10)

an_init == Frac(27, 100)

\* str() of the TypeError of d['key'] where d is a string or a list
NoStringIndex(d) ==
    IF d.t = "str" THEN "string indices must be integers, not 'str'"
    ELSE "list indices must be integers or slices, not str"

\* mutant: the scale guess is the smallest rainfall
BestFitArguments_min_scale(rainfall_values, water_table_measured, geometry) ==
    IF water_table_measured = <<>>
    THEN [raised |-> "list index out of range"]
    ELSE IF geometry.t # "dict"
    THEN [raised |-> NoStringIndex(geometry)]
    ELSE IF rainfall_values = <<>>
    THEN [raised |-> "max() arg is an empty sequence"]
    ELSE [raised |-> "",
          op |-> "MetBestFitPioggia",
          args |-> [h |-> water_table_measured[1],
                    ho |-> float(0),
                    Hmin |-> FMinOf(water_table_measured, Len(water_table_measured)),
                    alpha |-> geometry.v["i_pc"],
                    PYInterpLin |-> rainfall_values,
                    FYInterpLin |-> water_table_measured,
                    X |-> time_indices(Len(rainfall_values)),
                    Kt |-> kt_init,
                    AN |-> an_init,
                    hs |-> FMinOf(rainfall_values, Len(rainfall_values))]]

\* calibrate_water_table_auto up to the call of MetBestFitPioggia, lines
\* 146-178; geometry is the JSON value the view passes on
BestFitArguments(rainfall_values, water_table_measured, geometry) ==
    IF water_table_measured = <<>>
    THEN [raised |-> "list index out of range"]
    ELSE IF geometry.t # "dict"
    THEN [raised |-> NoStringIndex(geometry)]
    ELSE IF rainfall_values = <<>>
    THEN [raised |-> "max() arg is an empty sequence"]
    ELSE [raised |-> "",
          op |-> "MetBestFitPioggia",
          args |-> [h |-> water_table_measured[1],
                    ho |-> float(0),
                    Hmin |-> FMinOf(water_table_measured, Len(water_table_measured)),
                    alpha |-> geometry.v["i_pc"],
                    PYInterpLin |-> rainfall_values,
                    FYInterpLin |-> water_table_measured,
                    X |-> time_indices(Len(rainfall_values)),
                    Kt |-> kt_init,
                    AN |-> an_init,
                    hs |-> FMaxOf(rainfall_values, Len(rainfall_values))]]

\* mutant: the scale and the decay constant change places
EvaluationArguments_swapped(rainfall_values, hs, kt, an, ho, hmin, alpha) ==
    [raised |-> "",
     op |-> "CalcolaPioggiaFOR",
     args |-> [ho |-> ho, Hmin |-> hmin, alpha |-> alpha, hs |-> kt, Kt |-> hs, AN |-> an,
               PX |-> time_indices(Len(rainfall_values)), PY |-> rainfall_values]]

\* calculate_water_table up to the call of CalcolaPioggiaFOR
EvaluationArguments(rainfall_values, hs, kt, an, ho, hmin, alpha) ==
    [raised |-> "",
     op |-> "CalcolaPioggiaFOR",
     args |-> [ho |-> ho, Hmin |-> hmin, alpha |-> alpha, hs |-> hs, Kt |-> kt, AN |-> an,
               PX |-> time_indices(Len(rainfall_values)), PY |-> rainfall_values]]

\* the optimised parameters read off the array MetBestFitPioggia returned,
\* and the arguments of the evaluation that follows
AfterBestFit(params, best_fit_args) ==
    IF Len(params) < 3
    THEN [raised |-> "Index was outside the bounds of the array."]
    ELSE EvaluationArguments(best_fit_args.PYInterpLin, params[3], params[2], params[1],
                             best_fit_args.ho, best_fit_args.Hmin, best_fit_args.alpha)

\* the dictionary calibrate_water_table_auto returns
AutoCalibrationResult(params, best_fit_args, calculated_wt) ==
    [hs |-> params[3], kt |-> params[2], an |-> params[1],
     ho |-> best_fit_args.ho, hmin |-> best_fit_args.Hmin,
     calculated_water_table |-> calculated_wt]

\* run_prevision from line 324 to the call of the slope-stability operation,
\* geometry and geotechnical_params being dictionaries
SlopeCall(geometry, geotechnical_params, time_array, water_table_calculated, displacement_measured, num_harmonics, calculate_viscosity, molt_spost, molt_out_spost, sec) ==
    LET phi_interface == IF "fi_interface" \in DOMAIN geotechnical_params
                         THEN geotechnical_params["fi_interface"] ELSE float(0)
        common == [l1 |-> geometry["l1"], l2 |-> geometry["l2"], h |-> geometry["h"],
                   beta1 |-> geometry["beta1"], beta2 |-> geometry["beta2"],
                   i_pc |-> geometry["i_pc"],
                   gamma_sat |-> geotechnical_params["gamma_sat"],
                   fi |-> geotechnical_params["fi"], c |-> geotechnical_params["c"],
                   mu |-> geotechnical_params["mu"],
                   gamma_w |-> geotechnical_params["gamma_w"],
                   time |-> time_array, falda_calc |-> water_table_calculated,
                   spost_x |-> time_array,
                   spost_y |-> [k \in 1..Len(displacement_measured) |->
                                   DMul(displacement_measured[k], molt_spost)],
                   sec |-> sec, alpha |-> phi_interface, num_harmonics |-> num_harmonics]
    IN  IF calculate_viscosity
        THEN [raised |-> "", op |-> "MetodoBestFitting_MultiBloc",
              args |-> common @@ [spost_y_misu |-> displacement_measured,
                                  molt_out_spost |-> molt_out_spost,
                                  molt_spost |-> molt_spost]]
        ELSE [raised |-> "", op |-> "CalcoloPendio",
              args |-> common @@ [deltap1 |-> float(0), phi_interfaccia |-> phi_interface]]

\* run_prevision up to the call of the slope-stability operation: the
\* parameters are read from geometry and then from geotechnical_params, the
\* JSON values the view passes on, and the measured displacement is
\* converted to meters (line 338)
SlopeArguments(geometry, geotechnical_params, time_array, water_table_calculated, displacement_measured, num_harmonics, calculate_viscosity, molt_spost, molt_out_spost, sec) ==
    IF geometry.t # "dict" THEN [raised |-> NoStringIndex(geometry)]
    ELSE IF geotechnical_params.t # "dict" THEN [raised |-> NoStringIndex(geotechnical_params)]
    ELSE SlopeCall(geometry.v, geotechnical_params.v, time_array, water_table_calculated,
                   displacement_measured, num_harmonics, calculate_viscosity,
                   molt_spost, molt_out_spost, sec)

\* _convert_from_dotnet_2d_array(result, 5, n_points), lines 84-92: of a
\* rectangular array the entries [i, j] with i < 5 and j < n_points are
\* read, whatever its size
RectangularRows(dotnet_array, n_points) ==
    [r \in 1..5 |-> IF n_points = 0 THEN <<>> ELSE SubSeq(dotnet_array[r], 1, n_points)]

\* an entry read lies outside the array
RectangularRaises(dotnet_array, n_points) ==
    /\ n_points > 0
    /\ \/ Len(dotnet_array) < 5
       \/ \E r \in 1..5 : Len(dotnet_array[r]) < n_points

\* _convert_from_dotnet_jagged_array(result, 5), lines 95-105: the first 5
\* rows, each of its own length
JaggedRows(dotnet_array) == SubSeq(dotnet_array, 1, 5)

\* lines 401-403: result_matrix[4][5] if len(result_matrix[4]) > 5 else mu
WithViscosity(rows_read, row4, mu) ==
    rows_read @@ [mu |-> IF Len(row4) > 5 THEN row4[6] ELSE mu]

\* mutant twin of the above: index 4
WithViscosity_index4(rows_read, row4, mu) ==
    rows_read @@ [mu |-> IF Len(row4) > 4 THEN row4[5] ELSE mu]

\* the response run_prevision builds of the rows read, lines 394-399
PrevisionRows(rows) ==
    [displacement_calculated |-> rows[1], critical_water_table |-> rows[2],
     velocity |-> rows[3], safety_factor |-> rows[4]]

\* mutant: the calibrated viscosity is read at index 4 of row 4
PrevisionResult_index4(result_matrix, calculate_viscosity, mu, n_points) ==
    IF calculate_viscosity
    THEN IF RectangularRaises(result_matrix, n_points)
         THEN [raised |-> "Index was outside the bounds of the array."]
         ELSE [raised |-> "",
               response |-> WithViscosity_index4(
                                PrevisionRows(RectangularRows(result_matrix, n_points)),
                                RectangularRows(result_matrix, n_points)[5], mu)]
    ELSE IF Len(result_matrix) < 5
         THEN [raised |-> "Index was outside the bounds of the array."]
         ELSE [raised |-> "", response |-> PrevisionRows(JaggedRows(result_matrix))]

\* run_prevision after the call, lines 368-405: the 5 rows read off the
\* array returned and the dictionary returned; of the rectangular array of
\* the best fit n_points entries of each row are read, and the calibrated
\* viscosity is entry 5 of the entries read of row 4
PrevisionResult(result_matrix, calculate_viscosity, mu, n_points) ==
    IF calculate_viscosity
    THEN IF RectangularRaises(result_matrix, n_points)
         THEN [raised |-> "Index was outside the bounds of the array."]
         ELSE [raised |-> "",
               response |-> WithViscosity(
                                PrevisionRows(RectangularRows(result_matrix, n_points)),
                                RectangularRows(result_matrix, n_points)[5], mu)]
    ELSE IF Len(result_matrix) < 5
         THEN [raised |-> "Index was outside the bounds of the array."]
         ELSE [raised |-> "", response |-> PrevisionRows(JaggedRows(result_matrix))]

(***************************************************************************)
(* function_views.py: what the views compute around the engine             *)
(***************************************************************************)
format_indexed_data(data) ==
    [k \in 1..Len(data) |-> [index |-> data[k][1], value |-> data[k][2]]]

format_array_as_indexed(values) ==
    [k \in 1..Len(values) |-> [index |-> k - 1, value |-> values[k]]]

\* request.data.get(key, default) as the key of a dictionary: a JSON object
\* and a JSON array cannot be hashed
unhashable(x) == x.t \in {"dict", "list"}

\* table.get(key, default) for a key that can be hashed: the entry under the
\* string the key is, or the default
Lookup(table, key, default) ==
    IF \E k \in DOMAIN table : IsStr(key, k)
    THEN table[CHOOSE k \in DOMAIN table : IsStr(key, k)]
    ELSE default

\* line 351
unit_to_meters ==
    [mm |-> ToDouble(Frac(1, 1000)), cm |-> ToDouble(Frac(1, 100)), m |-> ToDouble(float(1))]

\* line 357
time_unit_to_sec ==
    [giorni |-> float(86400), mesi |-> float(2592000), anni |-> float(31104000)]

\* mutant: the engine's displacement is scaled by the input multiplier
UnitMultipliers_no_inverse(data) ==
    LET displacement_unit == get_default(data, "displacement_unit", JStr(Chars("cm")))
    IN  IF unhashable(displacement_unit)
        THEN [raised |-> "TypeError", molt_spost |-> DNan, molt_out_spost |-> DNan]
        ELSE [raised |-> "none",
              molt_spost |-> Lookup(unit_to_meters, displacement_unit, unit_to_meters.cm),
              molt_out_spost |-> Lookup(unit_to_meters, displacement_unit, unit_to_meters.cm)]

\* lines 350-353: unit_to_meters.get(displacement_unit, 0.01), which raises
\* TypeError for a key that cannot be hashed, and 1.0 / molt_spost
UnitMultipliers(data) ==
    LET displacement_unit == get_default(data, "displacement_unit", JStr(Chars("cm")))
    IN  IF unhashable(displacement_unit)
        THEN [raised |-> "TypeError", molt_spost |-> DNan, molt_out_spost |-> DNan]
        ELSE [raised |-> "none",
              molt_spost |-> Lookup(unit_to_meters, displacement_unit, unit_to_meters.cm),
              molt_out_spost |-> DDiv(ToDouble(float(1)),
                                      Lookup(unit_to_meters, displacement_unit,
                                             unit_to_meters.cm))]

\* lines 356-358: time_unit_to_sec.get(time_unit, 2592000.0)
SecondsPerStep(data) ==
    LET time_unit == get_default(data, "time_unit", JStr(Chars("mesi")))
    IN  IF unhashable(time_unit) THEN [raised |-> "TypeError", sec |-> float(0)]
        ELSE [raised |-> "none",
              sec |-> Lookup(time_unit_to_sec, time_unit, time_unit_to_sec.mesi)]

\* the body of the 200 response of CalibrateView.post
CalibrateResponse(calibrated_params, calculated_wt, water_table_data, rainfall_data) ==
    [success |-> TRUE,
     calibrated_params |-> calibrated_params,
     calculated_water_table |-> format_array_as_indexed(calculated_wt),
     measured_water_table |-> format_indexed_data(water_table_data),
     rainfall_data |-> format_indexed_data(rainfall_data)]

\* [v * molt_out_spost for v in values], line 405
ScaledBy(values, molt_out_spost) ==
    [k \in 1..Len(values) |-> DMul(ToDouble(values[k]), molt_out_spost)]

\* [v - h for v in values], line 410
LoweredBy(values, h) == [k \in 1..Len(values) |-> DSub(ToDouble(values[k]), h)]

\* the body of the 200 response of PrevisionView.post, prevision_result being
\* the dictionary run_prevision returned
PrevisionResponse(prevision_result, data, time_array, calculated_wt, water_table_data, displacement_data) ==
    LET disp_calc == ScaledBy(prevision_result.displacement_calculated,
                              UnitMultipliers(data).molt_out_spost)
        critical_wt == LoweredBy(prevision_result.critical_water_table,
                                 ToDouble(data["geometry"].v["h"]))
        resp ==
            [success |-> TRUE,
             results |->
                [time |-> format_array_as_indexed(time_array),
                 displacement_calculated |-> format_array_as_indexed(disp_calc),
                 displacement_measured |-> format_indexed_data(displacement_data),
                 velocity |-> format_array_as_indexed(prevision_result.velocity),
                 critical_water_table |-> format_array_as_indexed(critical_wt),
                 safety_factor |-> format_array_as_indexed(prevision_result.safety_factor),
                 water_table_calculated |-> format_array_as_indexed(calculated_wt),
                 water_table_measured |-> format_indexed_data(water_table_data)]]
    IN  IF "mu" \in DOMAIN prevision_result
        THEN resp @@ [calibrated_viscosity |->
                             [mu |-> prevision_result.mu, unit |-> "kN*month/m2"]]
        ELSE resp

\* the body of a 500 response, e being the DotNetError caught
EngineFailureResponse(e, error_code) ==
    [status |-> 500, raised |-> "none",
     body |-> [success |-> FALSE,
               errors |-> <<[it |-> <<e.message_it>>, en |-> <<e.message_en>>]>>,
               error_code |-> error_code,
               details |-> e.details]]

(***************************************************************************)
(* The uploaded files the validator is run on.  A file is built from a     *)
(* description: one shape per raw line.  A line of shape "ok" for row j    *)
(* is "<j>\t<value>"; at most MaxDeviations lines, at the raw positions    *)
(* DevRows, have another shape.                                            *)
(***************************************************************************)
MaxDeviations == 2

DevRows == {0, 11, 12}

LineCounts == {0, 11, 12, 13}

\* the value column: the text of a row's value, and the number it denotes
ValueTexts ==
    << [text |-> <<"6", ",", "1", "3">>,      val |-> Frac(613, 100)],
       [text |-> <<"-", "1", ",", "7", "7">>, val |-> Frac(-177, 100)],
       [text |-> <<"1", "0", "0">>,           val |-> float(100)],
       [text |-> <<"0", ",", "5", "0">>,      val |-> Frac(5, 10)],
       [text |-> <<"0", ",", "0">>,           val |-> float(0)] >>

\* the value of row j in a file whose values start at ValueTexts[seed + 1]
RowValue(j, seed) == ValueTexts[((j + seed) % Len(ValueTexts)) + 1]

\* str(j) for 0 <= j < 100
IntText(j) ==
    IF j < 10 THEN <<DigitChars[j + 1]>>
    ELSE <<DigitChars[(j \div 10) + 1], DigitChars[(j % 10) + 1]>>

\* Shapes the validator accepts, with index j and the value of RowValue(j)
WellFormedShapes == {"ok", "ok_padded", "ok_crlf"}

\* Shapes the validator accepts too, in a notation other than comma-decimal:
\* a sign and a leading zero on the index and a decimal point; an underscore
\* between the digits of the index; an exponent; an exponent beyond the
\* floats, upwards and downwards; an infinity; a NaN
LenientShapes ==
    {"ok_dot_plus", "ok_grouped", "ok_exponent", "ok_overflow", "ok_underflow", "ok_inf",
     "ok_nan"}

\* Shapes that put no row into the file
BlankShapes == {"blank"}

\* Shapes that must be reported, with the number of errors each one raises
BadShapes ==
    {"bad_index", "nan_index", "bad_value", "bad_both", "nan_both",
     "one_field", "three_fields", "bom_inside", "latin1_value"}

Shapes == WellFormedShapes \cup LenientShapes \cup BlankShapes \cup BadShapes

LineText(shape, j, seed) ==
    LET idx == IntText(j)
        v == RowValue(j, seed).text
    IN  CASE shape = "ok"           -> idx \o <<"\t">> \o v
          [] shape = "ok_padded"    -> <<" ">> \o idx \o <<"\f", "\t", "U+001C">> \o v \o <<"U+000B">>
          [] shape = "ok_crlf"      -> idx \o <<"\t">> \o v \o <<"\r">>
          [] shape = "ok_dot_plus"  -> <<"+", "0">> \o idx \o <<"\t">> \o replace(v, ",", ".")
          [] shape = "ok_grouped"   -> <<"0", "_">> \o idx \o <<"\t">> \o v
          [] shape = "ok_exponent"  -> idx \o <<"\t">> \o v \o <<"e", "3">>
          [] shape = "ok_overflow"  -> idx \o <<"\t">> \o v \o <<"e", "4", "0", "0">>
          [] shape = "ok_underflow" -> idx \o <<"\t">> \o v \o <<"E", "-", "4", "0", "0">>
          [] shape = "ok_inf"       -> idx \o <<"\t">> \o inf_text
          [] shape = "ok_nan"       -> idx \o <<"\t">> \o nan_text
          [] shape = "blank"        -> <<" ", "\t", "\f", "\r">>
          [] shape = "bad_index"    -> IntText(j + 1) \o <<"\t">> \o v
          [] shape = "nan_index"    -> <<"x", "\t">> \o v
          [] shape = "bad_value"    -> idx \o <<"\t", "1", ",", "2", ",", "3">>
          [] shape = "bad_both"     -> IntText(j + 1) \o <<"\t", "1", " ", "5">>
          [] shape = "nan_both"     -> <<"1", ".", "0", "\t", "x">>
          [] shape = "one_field"    -> idx \o <<" ">> \o v
          [] shape = "three_fields" -> idx \o <<"\t">> \o v \o <<"\t", "x">>
          [] shape = "bom_inside"   -> <<" ", "U+FEFF">> \o idx \o <<"\t">> \o v
          [] OTHER                  -> idx \o <<"\t">> \o v \o <<"U+00E9">>

\* In bytes that hold both a UTF-8 BOM and a Latin-1 e-acute, UTF-8 decoding
\* fails and the Latin-1 fallback turns the BOM into three ordinary
\* characters in front of the first line.
Garbled(d) ==
    /\ d.type = "bytes" /\ d.bom
    /\ \E k \in 1..Len(d.shapes) : d.shapes[k] = "latin1_value"

\* raw line k puts a row into the file
IsRow(d, k) == d.shapes[k] \notin BlankShapes \/ (k = 1 /\ Garbled(d))

\* the number of rows before raw line k: the index a correct line k carries
RowsBefore(d, k) == Cardinality({q \in 1..(k - 1) : IsRow(d, q)})

RowCount(d) == RowsBefore(d, Len(d.shapes) + 1)

\* text.encode() of one line: the BOM in UTF-8, e-acute in Latin-1
RECURSIVE EncodeText(_, _)
EncodeText(text, k) ==
    IF k > Len(text) THEN <<>>
    ELSE (CASE text[k] = "U+FEFF" -> <<"xEF", "xBB", "xBF">>
            [] text[k] = "U+00E9" -> <<"xE9">>
            [] OTHER -> <<text[k]>>) \o EncodeText(text, k + 1)

\* "\n".join(lines), from line k on
RECURSIVE JoinLines(_, _)
JoinLines(lines, k) ==
    IF k > Len(lines) THEN <<>>
    ELSE (IF k > 1 THEN <<"\n">> ELSE <<>>) \o lines[k] \o JoinLines(lines, k + 1)

\* the content of the file a description stands for
RenderFile(d) ==
    LET rows == [k \in 1..Len(d.shapes) |->
                    LineText(d.shapes[k], RowsBefore(d, k), d.seed)]
        lines == IF d.bom THEN <<<<"U+FEFF">>>> \o rows ELSE rows
        joined(ls) == IF d.bom /\ Len(ls) > 1
                      THEN ls[1] \o JoinLines(Tail(ls), 1)
                      ELSE JoinLines(ls, 1)
    IN  IF d.type = "bytes"
        THEN [type |-> "bytes",
              units |-> joined([k \in 1..Len(lines) |-> EncodeText(lines[k], 1)])]
        ELSE [type |-> "str", units |-> joined(lines)]

DevSets(n) ==
    {D \in SUBSET (DevRows \cap 0..(n - 1)) : Cardinality(D) <= MaxDeviations}

\* how a file comes: as text or as bytes, with or without a BOM in front,
\* its values starting at ValueTexts[seed + 1]
Renderings ==
    { [type |-> "str", bom |-> FALSE, seed |-> 0], [type |-> "str", bom |-> TRUE, seed |-> 1],
      [type |-> "bytes", bom |-> FALSE, seed |-> 1], [type |-> "bytes", bom |-> TRUE, seed |-> 0] }

\* the description of a file of n lines that comes as r says: the lines at
\* the positions D have the shapes f gives them, the others the shape "ok"
FileDesc(n, D, f, r) ==
    [type |-> r.type, bom |-> r.bom, seed |-> r.seed,
     shapes |-> [k \in 1..n |-> IF (k - 1) \in D THEN f[k - 1] ELSE "ok"]]

(***************************************************************************)
(* Validation of one uploaded file                                         *)
(***************************************************************************)
vvars == <<file_input, file_desc, vpc, result>>

rvars == <<vr, vr_op>>

svars == <<db, imported, last>>

ivars == <<request, response>>

\* the state of the calibration and prevision functions
\* what the handlers of calibrate and prevision requests leave alone
ovars == <<file_input, file_desc, vpc, result, vr, vr_op, imported, last, request, response,
           naming, interp>>

tvars == <<th, calculator_instance, constructed, existed, observed>>

fvars == <<interp, tvars>>

vars == <<vvars, rvars, svars, ivars, naming, fvars>>

NoFileMessage ==
    [it |-> <<"Nessun file caricato. Utilizzare il campo 'file'.">>,
     en |-> <<"No file uploaded. Use the 'file' field.">>]

ValidateIdle ==
    /\ file_input = None /\ file_desc = None /\ vpc = "idle" /\ result = ValidationResult

ResultIdle == vr = ValidationResult /\ vr_op = "init"

\* the series types of the data model
SeriesTypes == {pioggia, falda, spostamento}

\* the keys a storage unit is asked for
AllKeys == Uuids \X (SeriesTypes \cup {neve, ete})

\* a response that is an exception leaving the view, and one that the view returns
Escaped(exception) == [status |-> 0, raised |-> exception, body |-> <<>>]

Answered(status, body) == [status |-> status, raised |-> "none", body |-> body]

\* the callers of the Series Store: requests served at the same time
Callers == {"c1", "c2"}

\* a caller that has not called yet
NoCall == [op |-> "none", pc |-> "done", alone |-> TRUE, raised |-> "none"]

\* no table exists, nothing was imported, nobody has called
StoreEmpty ==
    /\ db = <<>>
    /\ imported = [key \in AllKeys |-> None]
    /\ last = [c \in Callers |-> NoCall]

ImportIdle == request = None /\ response = None

NamingIdle == naming = None

\* no request of the calibrate and prevision views is in progress
ServeIdle ==
    /\ th = <<>> /\ calculator_instance = None /\ constructed = 0
    /\ existed = {} /\ observed = {}

FunctionsIdle == interp = None /\ ServeIdle

\* a request with a file in its 'file' field, of any line count, rendering
\* and deviating lines, or without the field
InitValidate ==
    /\ \/ \E n \in LineCounts, r \in Renderings :
             \E D \in DevSets(n) : \E f \in [D -> Shapes \ {"ok"}] :
                /\ file_desc = FileDesc(n, D, f, r)
                /\ file_input = Some(RenderFile(file_desc))
       \/ file_desc = None /\ file_input = None
    /\ vpc = "start"
    /\ result = ValidationResult
    /\ ResultIdle /\ StoreEmpty /\ ImportIdle /\ NamingIdle /\ FunctionsIdle

\* DataValidateView.post for a request without the 'file' field
ValidateWithoutFile ==
    [status |-> 400,
     body |-> [valid |-> FALSE, errors |-> <<NoFileMessage>>, warnings |-> <<>>]]

\* DataValidateView.post: without the 'file' field the 400 response; with it
\* result = validate_data_file(file_content) and Response(result.to_dict())
Validate ==
    /\ vpc = "start"
    /\ IF file_input = None
       THEN /\ result' = result
            /\ response' = ValidateWithoutFile
       ELSE /\ result' = validate_data_file(file_input[1])
            /\ response' = [status |-> 200, body |-> to_dict(result')]
    /\ vpc' = "done"
    /\ UNCHANGED <<file_input, file_desc, request, rvars, svars, naming, fvars>>

NextValidate == Validate

SpecValidate == InitValidate /\ [][NextValidate]_vars

(***************************************************************************)
(* A ValidationResult under any sequence of add_error and add_warning      *)
(***************************************************************************)
MaxCalls == 3

MessagePairs ==
    { [it |-> <<"Errore italiano">>, en |-> <<"English error">>],
      [it |-> <<"Avviso italiano">>, en |-> <<"English warning">>],
      [it |-> <<"Errore">>, en |-> <<"Error">>] }

InitResult == ValidateIdle /\ ResultIdle /\ StoreEmpty /\ ImportIdle /\ NamingIdle /\ FunctionsIdle

CallAddError ==
    /\ Len(vr.errors) + Len(vr.warnings) < MaxCalls
    /\ \E m \in MessagePairs : vr' = add_error(vr, m.it, m.en)
    /\ vr_op' = "add_error"
    /\ UNCHANGED <<vvars, svars, ivars, naming, fvars>>

CallAddWarning ==
    /\ Len(vr.errors) + Len(vr.warnings) < MaxCalls
    /\ \E m \in MessagePairs : vr' = add_warning(vr, m.it, m.en)
    /\ vr_op' = "add_warning"
    /\ UNCHANGED <<vvars, svars, ivars, naming, fvars>>

NextResult == CallAddError \/ CallAddWarning

SpecResult == InitResult /\ [][NextResult]_vars

(***************************************************************************)
(* The Series Store under the import_data, get_imported_data and           *)
(* check_required_data calls of two callers, every call sending its        *)
(* statements one by one                                                   *)
(***************************************************************************)
MaxRows == 2

\* the rows a caller hands to import_data: indices repeat, and come in any order
RowChoices ==
    { [index |-> 0, value |-> Frac(613, 100)],
      [index |-> 1, value |-> Frac(-177, 100)],
      [index |-> 0, value |-> Frac(5, 10)] }

\* the lists of at most MaxRows rows, no row twice in a list
RowLists ==
    UNION { {data \in [1..n -> RowChoices] : \A a, b \in 1..n : a # b => data[a] # data[b]}
            : n \in 0..MaxRows }

\* the keys data are imported for
StoreKeys == {<<Uuid1, pioggia>>, <<Uuid1, falda>>}

\* the lists of required types the views pass, and one in another order
RequiredLists ==
    {<<pioggia, falda>>, <<pioggia, falda, spostamento>>, <<falda, pioggia>>}

\* the rows imported for the water table: by the first caller, and by the second
FaldaRows == <<[index |-> 0, value |-> Frac(613, 100)]>>

OtherRows == <<[index |-> 1, value |-> float(100)]>>

\* what a caller calls with: the first caller makes every call, the second,
\* at the same time, imports its row for the water table again and again
ImportInputs(c) ==
    IF c = "c1"
    THEN ({<<Uuid1, pioggia>>} \X RowLists) \cup {<<<<Uuid1, falda>>, FaldaRows>>}
    ELSE {<<<<Uuid1, falda>>, OtherRows>>}

ReadInputs(c) ==
    IF c = "c1"
    THEN ({Uuid1} \X (SeriesTypes \cup {neve, ete})) \cup {<<Uuid2, pioggia>>}
    ELSE {}

CheckInputs(c) ==
    IF c = "c1"
    THEN ({Uuid1} \X RequiredLists) \cup {<<Uuid2, <<pioggia, falda>>>>}
    ELSE {}

\* a call that has just been made: alone says that no other caller has
\* changed the database since
Called(op, pc) == [op |-> op, pc |-> pc, alone |-> TRUE, raised |-> "none"]

\* import_data(uuid, data_ref_name, data) before its first statement; prior
\* is the number of rows its DROP finds, -1 for no table
ImportDataCall(uuid, data_ref_name, data) ==
    Called("import_data", "drop")
        @@ [uuid |-> uuid, data_type |-> data_ref_name, data |-> data, k |-> 1, prior |-> -1]

\* the call has returned ret
Returned(call, ret) == [call EXCEPT !.pc = "done"] @@ [ret |-> ret]

\* the call has raised
Raised(call, exception) == [call EXCEPT !.pc = "done", !.raised = exception]

\* the calls after caller c has changed the database and its call has become
\* call: the calls of the others have not been alone
AfterWrite(c, call) ==
    [o \in Callers |->
        IF o = c THEN call
        ELSE IF last[o].op = "none" THEN last[o]
        ELSE [last[o] EXCEPT !.alone = FALSE]]

\* the data a key is known to hold after a statement of an import_data call:
\* those of the call when it has returned and was alone, and none otherwise
Imported(call) ==
    [imported EXCEPT ![<<call.uuid, call.data_type>>] =
        IF call.pc = "done" /\ call.raised = "none" /\ call.alone THEN Some(call.data)
        ELSE None]

InitStore == ValidateIdle /\ ResultIdle /\ StoreEmpty /\ ImportIdle /\ NamingIdle /\ FunctionsIdle

\* a caller that is in no call calls import_data
CallImportData(c) ==
    /\ last[c].pc = "done"
    /\ \E inp \in ImportInputs(c) :
          last' = [last EXCEPT ![c] = ImportDataCall(inp[1][1], inp[1][2], inp[2])]
    /\ UNCHANGED <<db, imported, vvars, rvars, ivars, naming, fvars>>

\* create_import_table, line 53: DROP TABLE IF EXISTS
ImportDataDrop(c) ==
    /\ last[c].op = "import_data" /\ last[c].pc = "drop"
    /\ LET call == last[c]
           table_name == get_table_name(call.uuid, call.data_type)
           next == [call EXCEPT !.pc = "create",
                                !.prior = IF table_exists(db, table_name)
                                          THEN Len(db[table_name]) ELSE -1]
       IN  /\ db' = DropTableIfExists(db, table_name)
           /\ last' = AfterWrite(c, next)
           /\ imported' = Imported(next)
    /\ UNCHANGED <<vvars, rvars, ivars, naming, fvars>>

\* create_import_table, lines 56-63: CREATE TABLE, which raises
\* ProgrammingError on a name that is taken; import_data returns after it
\* when there are no rows
ImportDataCreate(c) ==
    /\ last[c].op = "import_data" /\ last[c].pc = "create"
    /\ LET call == last[c]
           table_name == get_table_name(call.uuid, call.data_type)
           next == IF call.data = <<>>
                   THEN Returned(call, [table_name |-> table_name, rows_imported |-> 0])
                   ELSE [call EXCEPT !.pc = "insert"]
       IN  IF table_exists(db, table_name)
           THEN /\ last' = [last EXCEPT ![c] = Raised(call, "ProgrammingError")]
                /\ UNCHANGED <<db, imported>>
           ELSE /\ db' = CreateTable(db, table_name)
                /\ last' = AfterWrite(c, next)
                /\ imported' = Imported(next)
    /\ UNCHANGED <<vvars, rvars, ivars, naming, fvars>>

\* import_data, lines 84-88: the INSERT of row k, which raises
\* ProgrammingError when the table is no longer there; after the last row
\* lines 90-93 return the dictionary
ImportDataInsert(c) ==
    /\ last[c].op = "import_data" /\ last[c].pc = "insert"
    /\ LET call == last[c]
           table_name == get_table_name(call.uuid, call.data_type)
           row == call.data[call.k]
           next == IF call.k = Len(call.data)
                   THEN Returned(call, [table_name |-> table_name,
                                        rows_imported |-> Len(call.data)])
                   ELSE [call EXCEPT !.k = call.k + 1]
       IN  IF ~table_exists(db, table_name)
           THEN /\ last' = [last EXCEPT ![c] = Raised(call, "ProgrammingError")]
                /\ UNCHANGED <<db, imported>>
           ELSE /\ db' = InsertRow(db, table_name, row.index, row.value)
                /\ last' = AfterWrite(c, next)
                /\ imported' = Imported(next)
    /\ UNCHANGED <<vvars, rvars, ivars, naming, fvars>>

\* a caller that is in no call calls get_imported_data
CallGetImportedData(c) ==
    /\ last[c].pc = "done"
    /\ \E key \in ReadInputs(c) :
          last' = [last EXCEPT ![c] = Called("get_imported_data", "exists")
                                        @@ [uuid |-> key[1], data_type |-> key[2]]]
    /\ UNCHANGED <<db, imported, vvars, rvars, ivars, naming, fvars>>

\* get_imported_data, lines 59-69: the table_exists query and the
\* DataNotFoundError
GetImportedDataExists(c) ==
    /\ last[c].op = "get_imported_data" /\ last[c].pc = "exists"
    /\ LET call == last[c]
       IN  last' = [last EXCEPT ![c] =
                       IF ~table_exists(db, get_table_name(call.uuid, call.data_type))
                       THEN MissingTable(call.data_type) @@ [call EXCEPT !.pc = "done"]
                       ELSE [call EXCEPT !.pc = "select"]]
    /\ UNCHANGED <<db, imported, vvars, rvars, ivars, naming, fvars>>

\* get_imported_data, lines 71-79: the SELECT, which raises ProgrammingError
\* when the table is no longer there, and the list returned
GetImportedDataSelect(c) ==
    /\ last[c].op = "get_imported_data" /\ last[c].pc = "select"
    /\ LET call == last[c]
           table_name == get_table_name(call.uuid, call.data_type)
       IN  IF ~table_exists(db, table_name)
           THEN last' = [last EXCEPT ![c] = Raised(call, "ProgrammingError")]
           ELSE \E rows \in SelectRows(db, table_name) :
                   last' = [last EXCEPT ![c] = Returned(call, rows)]
    /\ UNCHANGED <<db, imported, vvars, rvars, ivars, naming, fvars>>

\* a caller that is in no call calls check_required_data
CallCheckRequiredData(c) ==
    /\ last[c].pc = "done"
    /\ \E inp \in CheckInputs(c) :
          last' = [last EXCEPT ![c] = Called("check_required_data", "check")
                                        @@ [uuid |-> inp[1], required_types |-> inp[2],
                                            k |-> 1, errors |-> <<>>]]
    /\ UNCHANGED <<db, imported, vvars, rvars, ivars, naming, fvars>>

\* check_required_data, lines 120-127: the pass of the loop for required
\* type k, with its table_exists query; after the last pass line 129 returns
\* the errors
CheckRequiredDataPass(c) ==
    /\ last[c].op = "check_required_data" /\ last[c].pc = "check"
    /\ LET call == last[c]
           errors == CheckOneRequired(db, call.uuid, call.required_types[call.k], call.errors)
       IN  last' = [last EXCEPT ![c] =
                       IF call.k < Len(call.required_types)
                       THEN [call EXCEPT !.k = call.k + 1, !.errors = errors]
                       ELSE Returned([call EXCEPT !.errors = errors], errors)]
    /\ UNCHANGED <<db, imported, vvars, rvars, ivars, naming, fvars>>

NextStore ==
    \/ \E c \in Callers : CallImportData(c)
    \/ \E c \in Callers : ImportDataDrop(c)
    \/ \E c \in Callers : ImportDataCreate(c)
    \/ \E c \in Callers : ImportDataInsert(c)
    \/ \E c \in Callers : CallGetImportedData(c)
    \/ \E c \in Callers : GetImportedDataExists(c)
    \/ \E c \in Callers : GetImportedDataSelect(c)
    \/ \E c \in Callers : CallCheckRequiredData(c)
    \/ \E c \in Callers : CheckRequiredDataPass(c)

SpecStore == InitStore /\ [][NextStore]_vars

(***************************************************************************)
(* views.py: import requests, handled one at a time                        *)
(***************************************************************************)
\* the shapes of the last line of a file uploaded for import: lines the
\* validator accepts, a blank line, and lines it reports
ImportShapes ==
    {"ok", "ok_padded", "ok_dot_plus", "ok_overflow", "ok_nan", "blank",
     "bad_index", "bad_value", "one_field", "latin1_value"}

\* the files uploaded for import: bytes of 11, 12 or 13 lines, the last line
\* of one of these shapes
ImportFileDescs ==
    { FileDesc(n, {n - 1}, [j \in {n - 1} |-> shape],
               [type |-> "bytes", bom |-> FALSE, seed |-> 1])
      : n \in {11, 12, 13}, shape \in ImportShapes }

\* validate_data_file of every such file
ValidatedImport == [d \in ImportFileDescs |-> validate_data_file(RenderFile(d))]

ImportKeys == {<<Uuid1, pioggia>>, <<Uuid2, falda>>}

\* DataImportView.post for a request without the 'file' field
ImportWithoutFile ==
    [status |-> 400,
     body |-> [success |-> FALSE, valid |-> FALSE, errors |-> <<NoFileMessage>>,
               warnings |-> <<>>]]

\* mutant: import_data is called before the validation result is looked at
ImportWithFile_import_first(uuid, data_ref_name, validation_result) ==
    [response |-> None,
     call |-> Some(ImportDataCall(uuid, data_ref_name,
                                  IF validation_result.valid THEN validation_result.data[1]
                                  ELSE <<>>))]

\* DataImportView.post for a request with a file, validation_result being
\* validate_data_file(file_content): the 400 response, or the call of
\* import_data
ImportWithFile(uuid, data_ref_name, validation_result) ==
    IF ~validation_result.valid
    THEN [response |-> Some([status |-> 400,
                             body |-> [success |-> FALSE] @@ to_dict(validation_result)]),
          call |-> None]
    ELSE [response |-> None,
          call |-> Some(ImportDataCall(uuid, data_ref_name, validation_result.data[1]))]

\* the caller the import requests are served by, one after the other
ImportCaller == "c1"

\* no import request is waiting for its response
ImportServed == request = None \/ response # None

InitImport == ValidateIdle /\ ResultIdle /\ StoreEmpty /\ ImportIdle /\ NamingIdle /\ FunctionsIdle

\* DataImportView.post, lines 92-124: a request arrives when the one before
\* has its response; it is refused with 400, or import_data is called
DataImportView_post ==
    /\ ImportServed
    /\ \E key \in ImportKeys :
          \/ /\ request' = [uuid |-> key[1], data_ref_name |-> key[2], file |-> None]
             /\ response' = ImportWithoutFile
             /\ UNCHANGED last
          \/ \E f \in ImportFileDescs :
                LET r == ImportWithFile(key[1], key[2], ValidatedImport[f])
                IN  /\ request' = [uuid |-> key[1], data_ref_name |-> key[2], file |-> Some(f)]
                    /\ response' = IF r.response = None THEN None ELSE r.response[1]
                    /\ last' = IF r.call = None THEN last
                               ELSE [last EXCEPT ![ImportCaller] = r.call[1]]
    /\ UNCHANGED <<db, imported, vvars, rvars, naming, fvars>>

\* DataImportView.post, lines 124-129: import_data has returned and the view
\* answers with its dictionary; an exception of import_data leaves the view
DataImportView_respond ==
    /\ ~ImportServed
    /\ last[ImportCaller].op = "import_data" /\ last[ImportCaller].pc = "done"
    /\ response' = IF last[ImportCaller].raised = "none"
                   THEN [status |-> 200, body |-> [success |-> TRUE] @@ last[ImportCaller].ret]
                   ELSE Escaped(last[ImportCaller].raised)
    /\ UNCHANGED <<request, svars, vvars, rvars, naming, fvars>>

NextImport ==
    \/ DataImportView_post
    \/ \E c \in Callers : ImportDataDrop(c)
    \/ \E c \in Callers : ImportDataCreate(c)
    \/ \E c \in Callers : ImportDataInsert(c)
    \/ DataImportView_respond

SpecImport == InitImport /\ [][NextImport]_vars

(***************************************************************************)
(* get_table_name on two (dataset id, series type) pairs                   *)
(***************************************************************************)
MaxTokenLen == 1

\* letters of either case, ASCII and accented, a digit, '_', '-', '.' and '!'
TokenChars == {"a", "A", "U+00E9", "U+00C9", "7", "_", "-", ".", "!"}

\* the reference name of GetTableNameTests
special_chars == <<"s", "p", "e", "c", "i", "a", "l", "-", "c", "h", "a", "r", "s", ".", "h", "e", "r", "e", "!">>

RefTokens ==
    UNION {[1..n -> TokenChars] : n \in 0..MaxTokenLen}
        \cup {pioggia, falda, spostamento, special_chars, ete, <<"U+00C9", "t", "U+00E9">>}

InitNaming ==
    /\ ValidateIdle /\ ResultIdle /\ StoreEmpty /\ ImportIdle /\ FunctionsIdle
    /\ \E p1, p2 \in Uuids \X RefTokens :
          naming = [p1 |-> p1, p2 |-> p2, done |-> FALSE, n1 |-> <<>>, n2 |-> <<>>]

CallGetTableName ==
    /\ ~naming.done
    /\ naming' = [naming EXCEPT !.done = TRUE,
                                !.n1 = get_table_name(naming.p1[1], naming.p1[2]),
                                !.n2 = get_table_name(naming.p2[1], naming.p2[2])]
    /\ UNCHANGED <<vvars, rvars, svars, ivars, fvars>>

NextNaming == CallGetTableName

SpecNaming == InitNaming /\ [][NextNaming]_vars

(***************************************************************************)
(* interpolate_to_integer_grid on one series and one grid size             *)
(***************************************************************************)
MaxSamples == 3

\* the indices a series has samples at
SampleIndices == {0, 1, 2, 3, 5, 9}

\* the values of the samples: 6.13, -1.77 and float('inf')
SampleValues == {Frac(613, 100), Frac(-177, 100), inf}

GridSizes == {0, 1, 3, 6, 12}

\* the list of the indices of S in ascending order
RECURSIVE Ascending(_)
Ascending(S) ==
    IF S = {} THEN <<>>
    ELSE LET m == CHOOSE x \in S : \A y \in S : x <= y
         IN  <<m>> \o Ascending(S \ {m})

\* the series of at most MaxSamples samples, ascending and without duplicate
\* indices, as get_imported_data returns them
SeriesInputs ==
    UNION { { [k \in 1..Cardinality(S) |-> <<Ascending(S)[k], v[k]>>]
              : v \in [1..Cardinality(S) -> SampleValues] }
            : S \in {T \in SUBSET SampleIndices : Cardinality(T) <= MaxSamples} }

InitInterp ==
    /\ ValidateIdle /\ ResultIdle /\ StoreEmpty /\ ImportIdle /\ NamingIdle /\ ServeIdle
    /\ \E data \in SeriesInputs, grid_size \in GridSizes :
          interp = [data |-> data, grid_size |-> grid_size, done |-> FALSE,
                    raised |-> "none", result |-> <<>>]

CallInterpolate ==
    /\ ~interp.done
    /\ LET raised == interpolate_raises(interp.data, interp.grid_size)
       IN  interp' = [interp EXCEPT
                        !.done = TRUE,
                        !.raised = raised,
                        !.result = IF raised = "none"
                                   THEN interpolate_to_integer_grid(interp.data, interp.grid_size)
                                   ELSE <<>>]
    /\ UNCHANGED <<vvars, rvars, svars, ivars, naming, tvars>>

NextInterp == CallInterpolate

SpecInterp == InitInterp /\ [][NextInterp]_vars

(***************************************************************************)
(* interpolate_to_integer_grid on a list of samples in any order, indices  *)
(* repeated or not                                                         *)
(***************************************************************************)
AnyIndices == {0, 1, 3, 5}

AnySamples == AnyIndices \X SampleValues

AnySeries == UNION {[1..n -> AnySamples] : n \in 1..MaxSamples}

AnyGridSizes == {0, 1, 4, 7}

InitAnySeries ==
    /\ ValidateIdle /\ ResultIdle /\ StoreEmpty /\ ImportIdle /\ NamingIdle /\ ServeIdle
    /\ \E data \in AnySeries, grid_size \in AnyGridSizes :
          interp = [data |-> data, grid_size |-> grid_size, done |-> FALSE,
                    raised |-> "none", result |-> <<>>]

SpecAnySeries == InitAnySeries /\ [][NextInterp]_vars

(***************************************************************************)
(* Requests in progress.  Each request is handled by one thread of the     *)
(* server process; threads share the database and the calculator           *)
(* singleton.  A handler advances by one database statement or one side    *)
(* of an engine invocation at a time.                                      *)
(***************************************************************************)
\* the state of a handler that has not started
Fresh(kind, data) ==
    [kind |-> kind, data |-> data,
     pc |-> IF kind = "import" THEN "drop" ELSE "validate",
     uuid |-> <<>>, k |-> 1, data_errors |-> <<>>, fetched |-> <<>>,
     stage |-> 1, cur |-> None, best |-> <<>>, curve |-> <<>>, calls |-> <<>>,
     response |-> None, failure |-> "none", stopped_at |-> "none", steps |-> <<>>,
     handle |-> None, absent |-> {}]

\* the handler enters a step of its processing: the step is logged
Step(rec, name) == [rec EXCEPT !.steps = Append(@, name)]

\* the handler of t ends: resp is the response returned, or the exception
\* that leaves the handler
Finished(rec, resp, failure) ==
    [rec EXCEPT !.pc = "done", !.response = Some(resp), !.failure = failure,
                !.stopped_at = rec.pc, !.steps = Append(@, "respond")]

\* the series a view requires, lines 154 and 325
RequiredTypes(kind) ==
    IF kind = "calibrate" THEN <<pioggia, falda>> ELSE <<pioggia, falda, spostamento>>

\* the required series of the handler that have no table now
AbsentNow(rec, required) ==
    {required[i] : i \in {j \in 1..Len(required) :
                              ~table_exists(db, get_table_name(rec.uuid, required[j]))}}

\* the handler answers 404 DATA_NOT_FOUND with the errors; the series that
\* are absent at that moment are kept with it
NotFound(rec, errors) ==
    Finished([rec EXCEPT !.absent = AbsentNow(rec, RequiredTypes(rec.kind))],
             Answered(404, [success |-> FALSE, errors |-> errors,
                            error_code |-> "DATA_NOT_FOUND"]),
             "none")

\* the outcomes of one statement sent to the database
StorageOutcomes == {"ok", "OperationalError"}

\* the outcomes of loading the MODE II assembly in Mode2Calculator()
AssemblyOutcomes == {"ok", "missing", "no_types", "unloadable"}

ErrorCode(kind) == IF kind = "calibrate" THEN "CALIBRATION_FAILED" ELSE "PREVISION_FAILED"

IsAutomatic(data) == IsStr(get_default(data, "mode", JStr(Chars("automatic"))), "automatic")

IsBestFitViscosity(data) ==
    IsStr(get_default(data, "prevision_type", JStr(Chars("standard"))), "best_fit_viscosity")

\* lines 91-151 and 245-322: the structural checks
ValidateRequest(t) ==
    /\ th[t].pc = "validate"
    /\ LET rec == Step(th[t], "validate")
           s == IF rec.kind = "calibrate" THEN CalibrateStructural(rec.data)
                ELSE PrevisionStructural(rec.data)
       IN  th' = [th EXCEPT ![t] =
                IF s.raised # "none" THEN Finished(rec, Escaped(s.raised), "none")
                ELSE IF s.errors # <<>>
                THEN Finished(rec, Answered(400, [success |-> FALSE, errors |-> s.errors]), "none")
                ELSE [rec EXCEPT !.pc = "check", !.uuid = s.uuid, !.k = 1]]
    /\ UNCHANGED <<ovars, db, existed, observed, calculator_instance, constructed>>

\* what a reader that finds the table of (uuid, data_type) missing saw
Observation(t, uuid, data_type) ==
    LET name == get_table_name(uuid, data_type)
    IN  [reader |-> t, table |-> name, existed_before |-> name \in existed,
         replacing |-> {w \in DOMAIN th :
                           /\ th[w].kind = "import"
                           /\ get_table_name(th[w].data.uuid, th[w].data.data_ref_name) = name
                           /\ \/ th[w].pc = "create"
                              \/ th[w].pc = "done" /\ th[w].stopped_at = "create"}]

Observe(t, uuid, data_type) ==
    observed' = IF table_exists(db, get_table_name(uuid, data_type)) THEN observed
                ELSE observed \cup {Observation(t, uuid, data_type)}

\* check_required_data: one pass of its loop, the table_exists query of
\* required type k; after the last pass lines 155-160 / 326-331
CheckRequired(t) ==
    /\ th[t].pc = "check"
    /\ LET rec == Step(th[t], "check")
           required == RequiredTypes(rec.kind)
           errors == CheckOneRequired(db, rec.uuid, required[rec.k], rec.data_errors)
       IN  \E outcome \in StorageOutcomes :
              IF outcome # "ok"
              THEN /\ th' = [th EXCEPT ![t] = Finished(rec, Escaped(outcome), "storage")]
                   /\ UNCHANGED observed
              ELSE /\ th' = [th EXCEPT ![t] =
                        IF rec.k < Len(required)
                        THEN [rec EXCEPT !.k = rec.k + 1, !.data_errors = errors]
                        ELSE IF errors # <<>>
                        THEN NotFound([rec EXCEPT !.data_errors = errors], errors)
                        ELSE [rec EXCEPT !.pc = "get_exists", !.k = 1]]
                   /\ Observe(t, rec.uuid, required[rec.k])
    /\ UNCHANGED <<ovars, db, existed, calculator_instance, constructed>>

\* get_imported_data, lines 65-68: the table_exists query; the
\* DataNotFoundError is caught at lines 166-171 / 338-343
GetExists(t) ==
    /\ th[t].pc = "get_exists"
    /\ LET rec == Step(th[t], "retrieve")
           data_type == RequiredTypes(rec.kind)[rec.k]
       IN  \E outcome \in StorageOutcomes :
              IF outcome # "ok"
              THEN /\ th' = [th EXCEPT ![t] = Finished(rec, Escaped(outcome), "storage")]
                   /\ UNCHANGED observed
              ELSE /\ th' = [th EXCEPT ![t] =
                        IF ~table_exists(db, get_table_name(rec.uuid, data_type))
                        THEN NotFound(rec, <<NotFoundMessage(data_type)>>)
                        ELSE [rec EXCEPT !.pc = "get_select"]]
                   /\ Observe(t, rec.uuid, data_type)
    /\ UNCHANGED <<ovars, db, existed, calculator_instance, constructed>>

\* lines 350-358 of PrevisionView.post, outside its try blocks: the
\* exception of either dictionary lookup leaves the view
UnitsRaise(rec) ==
    /\ rec.kind = "prevision"
    /\ \/ UnitMultipliers(rec.data).raised # "none"
       \/ SecondsPerStep(rec.data).raised # "none"

\* what follows the SELECT of required type k: the next series, and after
\* the last one lines 174-175 / 346-358, the values extracted and the unit
\* factors looked up
AfterSelect(rec, required) ==
    IF rec.k < Len(required) THEN [rec EXCEPT !.k = rec.k + 1, !.pc = "get_exists"]
    ELSE IF UnitsRaise(rec) THEN Finished(Step(rec, "convert"), Escaped("TypeError"), "none")
    ELSE [Step(rec, "convert") EXCEPT !.k = 1, !.pc = "get_calculator"]

\* get_imported_data, lines 70-79: the SELECT; on a table that is no longer
\* there the database raises ProgrammingError
GetSelect(t) ==
    /\ th[t].pc = "get_select"
    /\ LET rec == Step(th[t], "retrieve")
           required == RequiredTypes(rec.kind)
           name == get_table_name(rec.uuid, required[rec.k])
       IN  \E outcome \in StorageOutcomes :
              IF outcome # "ok"
              THEN th' = [th EXCEPT ![t] = Finished(rec, Escaped(outcome), "storage")]
              ELSE IF ~table_exists(db, name)
              THEN th' = [th EXCEPT ![t] = Finished(rec, Escaped("ProgrammingError"), "storage")]
              ELSE \E rows \in SelectRows(db, name) :
                      th' = [th EXCEPT ![t] =
                                AfterSelect([rec EXCEPT !.fetched = Append(rec.fetched, rows)],
                                            required)]
    /\ UNCHANGED <<ovars, db, existed, observed, calculator_instance, constructed>>

\* get_calculator, line 427: the test of the singleton; when it is set, line
\* 429 returns it
GetCalculator(t) ==
    /\ th[t].pc = "get_calculator"
    /\ th' = [th EXCEPT ![t].pc = IF calculator_instance = None THEN "construct" ELSE "invoke",
                        ![t].handle = calculator_instance]
    /\ UNCHANGED <<ovars, db, existed, observed, calculator_instance, constructed>>

\* the module file is where every handler of the process that reported the
\* assembly missing found it
Installed(module_file) ==
    \A u \in DOMAIN th :
        (th[u].failure = "load" /\ th[u].response[1].status = 500)
            => th[u].response[1].body.details
                   \in {None, AssemblyNotFound(module_file).details}

\* get_calculator, line 428: Mode2Calculator() and the assignment
Construct(t) ==
    /\ th[t].pc = "construct"
    /\ LET rec == th[t]
       IN  \E assembly \in AssemblyOutcomes, module_file \in {f \in ModuleFiles : Installed(f)} :
              IF assembly = "ok"
              THEN /\ th' = [th EXCEPT ![t].pc = "return_calculator"]
                   /\ constructed' = constructed + 1
                   /\ calculator_instance' = Some(constructed + 1)
              ELSE /\ th' = [th EXCEPT ![t] =
                        IF assembly = "missing"
                        THEN Finished(rec, EngineFailureResponse(AssemblyNotFound(module_file),
                                                                 ErrorCode(rec.kind)),
                                      "load")
                        ELSE IF assembly = "no_types"
                        THEN Finished(rec, EngineFailureResponse(TypesNotFound, ErrorCode(rec.kind)),
                                      "load")
                        ELSE Finished(rec, Escaped("FileLoadException"), "load")]
                   /\ UNCHANGED <<constructed, calculator_instance>>
    /\ UNCHANGED <<ovars, db, existed, observed>>

\* get_calculator, line 429, after a construction: the singleton is read
\* again and returned
ReturnCalculator(t) ==
    /\ th[t].pc = "return_calculator"
    /\ th' = [th EXCEPT ![t].pc = "invoke", ![t].handle = calculator_instance]
    /\ UNCHANGED <<ovars, db, existed, observed, calculator_instance, constructed>>

\* an exception raised inside a method of the bridge: the method catches it
\* and raises DotNetError
InBridge(call) == call @@ [escaped |-> "none"]

\* the TypeError of d['key'] in the view's own code: it is not a
\* DotNetError, and leaves the view
InView(d) == [raised |-> NoStringIndex(d), escaped |-> "TypeError"]

\* lines 197-212 and 365-373: the five parameters are read off params, then
\* geometry['i_pc'], and calculate_water_table is called
ViewEvaluation(rainfall_values, params, geometry) ==
    IF params.t # "dict" THEN InView(params)
    ELSE IF geometry.t # "dict" THEN InView(geometry)
    ELSE InBridge(EvaluationArguments(rainfall_values, params.v["hs"], params.v["kt"],
                                      params.v["an"], params.v["ho"], params.v["hmin"],
                                      geometry.v["i_pc"]))

\* lines 376-401: the time array, the displacement aligned to it (of rows
\* in ascending order of index, as they are fetched, no grid point raises),
\* and run_prevision up to its engine call
ViewPrevision(rec, n_time, m) ==
    InBridge(SlopeArguments(rec.data["geometry"], rec.data["geotechnical_params"],
                            time_indices(n_time), rec.curve,
                            interpolate_to_integer_grid(rec.fetched[3], n_time),
                            NumHarmonics(rec.data).value, IsBestFitViscosity(rec.data),
                            m.molt_spost, m.molt_out_spost, SecondsPerStep(rec.data).sec))

\* the way of a handler to its next engine invocation: the arguments of
\* the invocation, or the exception raised before it
NextCall(rec) ==
    LET data == rec.data
        rainfall_values == values_of(rec.fetched[1])
    IN  IF rec.kind = "calibrate"
        THEN IF IsAutomatic(data)
             THEN IF rec.stage = 1
                  THEN InBridge(BestFitArguments(rainfall_values, values_of(rec.fetched[2]),
                                                 data["geometry"]))
                  ELSE InBridge(AfterBestFit(rec.best, rec.calls[1].args))
             ELSE ViewEvaluation(rainfall_values, data["calibration_params"], data["geometry"])
        ELSE IF rec.stage = 1
             THEN ViewEvaluation(rainfall_values, data["model_params"], data["geometry"])
             ELSE ViewPrevision(rec, Len(rec.fetched[1]), UnitMultipliers(data))

\* the DotNetError a method of the bridge raises for the exception text
\* caught while the handler is at this stage
BridgeError(rec, text) ==
    IF rec.kind = "calibrate"
    THEN IF IsAutomatic(rec.data) THEN AutoCalibrationError(text) ELSE WaterTableError(text)
    ELSE IF rec.stage = 1 THEN WaterTableError(text) ELSE PrevisionError(text)

\* the same for an exception the engine raised: inside
\* calibrate_water_table_auto the error of calculate_water_table is caught
\* and raised again as the error of the automatic calibration
EngineError(rec, text) ==
    IF rec.kind = "calibrate" /\ IsAutomatic(rec.data) /\ rec.stage = 2
    THEN AutoCalibrationError(WaterTableError(text).message_en)
    ELSE BridgeError(rec, text)

\* mutant: the displacement is aligned after the slope-stability call
InvokeSteps_align_late(rec) ==
    IF rec.kind = "prevision" /\ rec.stage = 2 THEN <<"convert", "invoke", "align">>
    ELSE <<"invoke">>

\* the steps a handler takes on its way into the engine: before its second
\* invocation a prevision aligns the displacement to the time grid
\* (function_views.py:384) and converts it to meters (dotnet_bridge.py:338)
InvokeSteps(rec) ==
    IF rec.kind = "prevision" /\ rec.stage = 2 THEN <<"align", "convert", "invoke">>
    ELSE <<"invoke">>

\* the steps taken when the way to the invocation ends in an exception of
\* the bridge: run_prevision raises before it converts the displacement
RaisedSteps(rec) ==
    IF rec.kind = "prevision" /\ rec.stage = 2 THEN <<"align">> ELSE <<>>

\* a handler goes on to its next engine call: the engine is entered, or an
\* exception on the way ends the handler
Invoke(t) ==
    /\ th[t].pc = "invoke"
    /\ LET rec == th[t]
           call == NextCall(rec)
       IN  th' = [th EXCEPT ![t] =
                IF call.escaped # "none"
                THEN Finished(rec, Escaped(call.escaped), "none")
                ELSE IF call.raised # ""
                THEN Finished([rec EXCEPT !.steps = @ \o RaisedSteps(rec)],
                              EngineFailureResponse(BridgeError(rec, call.raised),
                                                    ErrorCode(rec.kind)), "engine")
                ELSE [rec EXCEPT !.pc = "in_engine",
                                 !.cur = Some([op |-> call.op, args |-> call.args]),
                                 !.steps = @ \o InvokeSteps(rec)]]
    /\ UNCHANGED <<ovars, db, existed, observed, calculator_instance, constructed>>

\* the engine does not depend on the model: canned results.  MetBestFitPioggia
\* returns the three parameters, or an array too short for them
BestFitResults ==
    {<<Frac(27, 100), Frac(29, 10), Frac(1619, 10)>>, <<Frac(27, 100), Frac(29, 10)>>}

CurveResults(n) == {[k \in 1..n |-> Frac(10 * (k - 1) - 175, 100)]}

MatrixVariants == {1, 2}

\* rows of columns: the first rows of a result of the slope-stability
\* operations, v telling one result from another
Matrix(v, rows, columns) ==
    SubSeq(<<[k \in 1..columns |-> Frac(2 * (k - 1) + v, 1000)],
             [k \in 1..columns |-> Frac(1900 + v + k, 100)],
             [k \in 1..columns |-> Frac(v - 1, 10)],
             [k \in 1..columns |-> Frac(12, 10)],
             [k \in 1..columns |-> Frac(40 + k + v, 1)]>>, 1, rows)

\* MetodoBestFitting_MultiBloc returns a rectangular array: of 5 rows and
\* n columns, as the bridge expects, or of 4 columns more, a column less or
\* a row less
RectangularResults(n) ==
    {Matrix(v, 5, n) : v \in MatrixVariants}
    \cup {Matrix(1, 5, n + 4), Matrix(1, 4, n)}
    \cup (IF n > 0 THEN {Matrix(1, 5, n - 1)} ELSE {})

\* row r of a jagged array has r - 1 entries more than the first
Jagged(v, n) == [r \in 1..5 |-> Matrix(v, 5, n + r - 1)[r]]

\* CalcoloPendio returns a jagged array: 5 rows of n entries, rows of
\* different lengths, or fewer rows
JaggedResults(n) ==
    {Matrix(v, 5, n) : v \in MatrixVariants} \cup {Jagged(1, n), Matrix(1, 4, n)}

EngineResults(op, args) ==
    IF op = "MetBestFitPioggia" THEN BestFitResults
    ELSE IF op = "CalcolaPioggiaFOR" THEN CurveResults(Len(args.PX))
    ELSE IF op = "MetodoBestFitting_MultiBloc" THEN RectangularResults(Len(args.time))
    ELSE JaggedResults(Len(args.time))

engine_failure == "engine failure"

\* what the handler does with the value an engine call returned
AfterReturn(rec, call, value) ==
    LET data == rec.data
        logged == [rec EXCEPT !.cur = None,
                              !.calls = Append(rec.calls, [op |-> call.op, args |-> call.args,
                                                          raised |-> FALSE, value |-> value])]
    IN  IF rec.kind = "calibrate"
        THEN IF IsAutomatic(data) /\ rec.stage = 1
             THEN [logged EXCEPT !.pc = "invoke", !.stage = 2, !.best = value]
             ELSE LET auto == AutoCalibrationResult(rec.best, rec.calls[1].args, value)
                      p == data["calibration_params"].v
                      calibrated_params ==
                          IF IsAutomatic(data)
                          THEN [hs |-> auto.hs, kt |-> auto.kt, an |-> auto.an,
                                ho |-> auto.ho, hmin |-> auto.hmin]
                          ELSE [hs |-> p["hs"], kt |-> p["kt"], an |-> p["an"],
                                ho |-> p["ho"], hmin |-> p["hmin"]]
                  IN  Finished(Step([logged EXCEPT !.curve = value], "reshape"),
                               Answered(200, CalibrateResponse(calibrated_params, value,
                                                               rec.fetched[2], rec.fetched[1])),
                               "none")
        ELSE IF rec.stage = 1
             THEN [logged EXCEPT !.pc = "invoke", !.stage = 2, !.curve = value]
             ELSE LET n_points == Len(rec.fetched[1])
                      r == PrevisionResult(value, IsBestFitViscosity(data),
                                           data["geotechnical_params"].v["mu"], n_points)
                  IN  IF r.raised # ""
                      THEN Finished(logged,
                                    EngineFailureResponse(PrevisionError(r.raised),
                                                          ErrorCode(rec.kind)), "engine")
                      ELSE Finished(Step(logged, "reshape"),
                                    Answered(200, PrevisionResponse(r.response, data,
                                                     time_indices(n_points), rec.curve,
                                                     rec.fetched[2], rec.fetched[3])),
                                    "none")

\* mutant: after an invocation in which the engine raised, the handler
\* invokes the engine again
Return_retry(t) ==
    /\ th[t].pc = "in_engine"
    /\ LET rec == th[t]
           call == rec.cur[1]
       IN  \/ th' = [th EXCEPT ![t] =
                  [rec EXCEPT !.cur = None, !.pc = "invoke",
                              !.calls = Append(rec.calls,
                                           [op |-> call.op, args |-> call.args,
                                            raised |-> TRUE, value |-> <<>>])]]
           \/ \E value \in EngineResults(call.op, call.args) :
                 th' = [th EXCEPT ![t] = AfterReturn(rec, call, value)]
    /\ UNCHANGED <<ovars, db, existed, observed, calculator_instance, constructed>>

\* the engine call returns a value or raises
Return(t) ==
    /\ th[t].pc = "in_engine"
    /\ LET rec == th[t]
           call == rec.cur[1]
       IN  \/ th' = [th EXCEPT ![t] =
                  Finished([rec EXCEPT !.cur = None,
                                       !.calls = Append(rec.calls,
                                                    [op |-> call.op, args |-> call.args,
                                                     raised |-> TRUE, value |-> <<>>])],
                           EngineFailureResponse(EngineError(rec, engine_failure),
                                                 ErrorCode(rec.kind)), "engine")]
           \/ \E value \in EngineResults(call.op, call.args) :
                 th' = [th EXCEPT ![t] = AfterReturn(rec, call, value)]
    /\ UNCHANGED <<ovars, db, existed, observed, calculator_instance, constructed>>

\* import_data of a validated file: DROP TABLE IF EXISTS
Drop(t) ==
    /\ th[t].pc = "drop"
    /\ LET rec == th[t]
           name == get_table_name(rec.data.uuid, rec.data.data_ref_name)
       IN  \E outcome \in StorageOutcomes :
              IF outcome # "ok"
              THEN /\ th' = [th EXCEPT ![t] = Finished(rec, Escaped(outcome), "storage")]
                   /\ UNCHANGED db
              ELSE /\ th' = [th EXCEPT ![t].pc = "create"]
                   /\ db' = DropTableIfExists(db, name)
    /\ UNCHANGED <<ovars, existed, observed, calculator_instance, constructed>>

\* CREATE TABLE: on a name that is taken the database raises ProgrammingError
Create(t) ==
    /\ th[t].pc = "create"
    /\ LET rec == th[t]
           name == get_table_name(rec.data.uuid, rec.data.data_ref_name)
       IN  \E outcome \in StorageOutcomes :
              IF outcome # "ok" \/ table_exists(db, name)
              THEN /\ th' = [th EXCEPT ![t] =
                              Finished(rec, Escaped(IF outcome # "ok" THEN outcome
                                                    ELSE "ProgrammingError"), "storage")]
                   /\ UNCHANGED <<db, existed>>
              ELSE /\ th' = [th EXCEPT ![t].pc = "insert", ![t].k = 1]
                   /\ db' = CreateTable(db, name)
                   /\ existed' = existed \cup {name}
    /\ UNCHANGED <<ovars, observed, calculator_instance, constructed>>

\* the INSERT of row k, and after the last row the dictionary returned
Insert(t) ==
    /\ th[t].pc = "insert"
    /\ LET rec == th[t]
           name == get_table_name(rec.data.uuid, rec.data.data_ref_name)
           rows == rec.data.rows
           ret == Answered(200, [success |-> TRUE, table_name |-> name,
                                 rows_imported |-> Len(rows)])
       IN  IF rec.k > Len(rows)
           THEN /\ th' = [th EXCEPT ![t] = Finished(rec, ret, "none")]
                /\ UNCHANGED db
           ELSE \E outcome \in StorageOutcomes :
                   IF outcome # "ok" \/ ~table_exists(db, name)
                   THEN /\ th' = [th EXCEPT ![t] =
                                   Finished(rec, Escaped(IF outcome # "ok" THEN outcome
                                                         ELSE "ProgrammingError"), "storage")]
                        /\ UNCHANGED db
                   ELSE /\ th' = [th EXCEPT ![t].k = rec.k + 1]
                        /\ db' = InsertRow(db, name, rows[rec.k].index, rows[rec.k].value)
    /\ UNCHANGED <<ovars, existed, observed, calculator_instance, constructed>>

\* any thread takes its next step
NextServe ==
    \/ \E t \in DOMAIN th : ValidateRequest(t)
    \/ \E t \in DOMAIN th : CheckRequired(t)
    \/ \E t \in DOMAIN th : GetExists(t)
    \/ \E t \in DOMAIN th : GetSelect(t)
    \/ \E t \in DOMAIN th : GetCalculator(t)
    \/ \E t \in DOMAIN th : Construct(t)
    \/ \E t \in DOMAIN th : ReturnCalculator(t)
    \/ \E t \in DOMAIN th : Invoke(t)
    \/ \E t \in DOMAIN th : Return(t)
    \/ \E t \in DOMAIN th : Drop(t)
    \/ \E t \in DOMAIN th : Create(t)
    \/ \E t \in DOMAIN th : Insert(t)

(***************************************************************************)
(* The requests sent to the calibrate and prevision views.  A body is the  *)
(* body of the integration tests with at most MaxFaults of its fields      *)
(* changed to another value or left out.                                   *)
(***************************************************************************)
MaxFaults == 2

\* marks a field that is not sent
Absent == [t |-> "absent", v |-> 0]

geometry_full ==
    [l1 |-> Frac(40971, 100), l2 |-> Frac(31446, 100), h |-> Frac(2031, 100),
     beta1 |-> Frac(518, 100), beta2 |-> Frac(1166, 100), i_pc |-> Frac(799, 100)]

geometry_partial == [l1 |-> Frac(40971, 100), l2 |-> Frac(31446, 100)]

geotechnical_full ==
    [gamma_sat |-> Frac(205, 10), gamma_w |-> float(10), fi |-> Frac(138, 10),
     c |-> float(0), mu |-> Frac(222, 5)]

geotechnical_partial == [gamma_sat |-> Frac(205, 10), mu |-> Frac(222, 5)]

model_full ==
    [hs |-> Frac(1619, 10), kt |-> Frac(29, 10), an |-> Frac(27, 100),
     ho |-> float(0), hmin |-> Frac(-1773, 1000)]

model_partial == [hs |-> Frac(1619, 10), kt |-> Frac(29, 10)]

\* the keys of a parameter object sent as a list of strings
KeyList(required) == JList([k \in 1..Len(required) |-> JStr(Chars(required[k]))])

DatasetUuidValues ==
    {Absent, JStr(<<>>), JStr(Chars("not-a-valid-uuid")),
     JStr(<<"{">> \o [k \in 1..Len(Uuid1) |-> UpperChar(Uuid1[k])] \o <<"}">>),
     JNum(float(123))}

GeometryValues ==
    {Absent, JDict(geometry_partial), JNum(float(5)), JStr(Chars("h")),
     JStr(Chars("l1 l2 h beta1 beta2 i_pc")), KeyList(required_geometry)}

CalibrateFields == {"dataset_uuid", "mode", "geometry", "calibration_params"}

CalibrateBase ==
    [dataset_uuid |-> JStr(Uuid1), mode |-> Absent, geometry |-> JDict(geometry_full),
     calibration_params |-> Absent]

CalibrateOther ==
    [dataset_uuid |-> DatasetUuidValues,
     mode |-> {JStr(Chars("manual")), JStr(Chars("unknown"))},
     geometry |-> GeometryValues,
     calibration_params |-> {JDict(model_full), JDict(model_partial),
                             JStr(Chars("hs kt an ho hmin"))}]

PrevisionFields ==
    {"dataset_uuid", "prevision_type", "geometry", "geotechnical_params", "model_params",
     "analysis_settings", "displacement_unit", "time_unit"}

PrevisionBase ==
    [dataset_uuid |-> JStr(Uuid1), prevision_type |-> Absent,
     geometry |-> JDict(geometry_full), geotechnical_params |-> JDict(geotechnical_full),
     model_params |-> JDict(model_full), analysis_settings |-> Absent,
     displacement_unit |-> Absent, time_unit |-> Absent]

PrevisionOther ==
    [dataset_uuid |-> DatasetUuidValues,
     prevision_type |-> {JStr(Chars("best_fit_viscosity")), JStr(Chars("unknown"))},
     geometry |-> GeometryValues,
     geotechnical_params |-> {Absent, JDict(geotechnical_partial),
                              JDict(geotechnical_full @@ [fi_interface |-> float(12)]),
                              JStr(Chars("gamma_sat gamma_w fi c mu"))},
     model_params |-> {Absent, JDict(model_partial), JStr(Chars("hs kt an ho hmin"))},
     analysis_settings |-> {JNull, JDict([num_harmonics |-> float(50)])},
     displacement_unit |-> {JStr(Chars("mm")), JStr(Chars("cm")), JStr(Chars("m")),
                            JStr(Chars("km")), JDict(<<>>)},
     time_unit |-> {JStr(Chars("giorni")), JList(<<>>)}]

\* request.data for the values chosen for the fields
Body(values) == [f \in {g \in DOMAIN values : values[g] # Absent} |-> values[f]]

Bodies(fields, base, other) ==
    UNION { { Body([f \in fields |-> IF f \in changed THEN choice[f] ELSE base[f]])
              : choice \in {c \in [changed -> UNION {other[f] : f \in changed}] :
                               \A f \in changed : c[f] \in other[f]} }
            : changed \in {D \in SUBSET fields : Cardinality(D) <= MaxFaults} }

\* the rows of the series of a dataset, n being the number of rainfall and
\* water table samples; displacement is measured at fewer indices
SeriesRows(data_type, n) ==
    IF data_type = pioggia
    THEN [k \in 1..n |-> [index |-> k - 1, value |-> float(10 * k - 5)]]
    ELSE IF data_type = falda
    THEN [k \in 1..n |-> [index |-> k - 1, value |-> Frac(10 * k - 185, 100)]]
    ELSE LET at == Ascending({i \in {0, 2, 5} : i < n})
         IN  [k \in 1..Len(at) |-> [index |-> at[k], value |-> float(2 * at[k])]]

SeriesLengths == {0, 2, 6}

\* the database after import_data of the series in present, each of n samples
RECURSIVE StoreOf(_, _)
StoreOf(present, n) ==
    IF present = {} THEN <<>>
    ELSE LET data_type == CHOOSE x \in present : TRUE
         IN  import_data(StoreOf(present \ {data_type}, n), Uuid1, data_type,
                         SeriesRows(data_type, n)).db

\* the database holding the three series with the rows given
StoreWith(rainfall_rows, water_table_rows, displacement_rows) ==
    import_data(import_data(import_data(<<>>, Uuid1, pioggia, rainfall_rows).db,
                            Uuid1, falda, water_table_rows).db,
                Uuid1, spostamento, displacement_rows).db

\* rows with the indices and values given
Rows(indices, values) ==
    [k \in 1..Len(indices) |-> [index |-> indices[k], value |-> values[k]]]

\* series with infinities and nan among their values, displacement series
\* with an index stored twice or with no index on the time grid (files
\* imported for the same series at the same time leave such rows), and a
\* displacement of 6.13 measured at the indices 0 and 3 of six
OddStores ==
    {StoreWith(Rows(<<0, 1>>, <<FNeg(inf), inf>>), Rows(<<0, 1>>, <<Frac(3, 2), nan>>),
               Rows(<<0, 0, 3>>, <<float(0), float(3), float(6)>>)),
     StoreWith(Rows(<<0, 1>>, <<nan, float(5)>>), Rows(<<0, 1>>, <<nan, FNeg(inf)>>),
               Rows(<<3, 4>>, <<float(4), float(5)>>)),
     StoreWith(SeriesRows(pioggia, 6), SeriesRows(falda, 6),
               Rows(<<0, 3>>, <<Frac(613, 100), Frac(613, 100)>>))}

Stores ==
    {StoreOf(present, n) : present \in SUBSET SeriesTypes, n \in SeriesLengths}
    \cup OddStores

\* an import of a validated file: the series it is for and its rows
ImportRequests ==
    {[uuid |-> Uuid1, data_ref_name |-> data_type, rows |-> SeriesRows(data_type, 2)]
        : data_type \in {pioggia, spostamento}}

Requests ==
    {Fresh("calibrate", data) : data \in Bodies(CalibrateFields, CalibrateBase, CalibrateOther)}
    \cup {Fresh("prevision", data) : data \in Bodies(PrevisionFields, PrevisionBase, PrevisionOther)}
    \cup {Fresh("import", data) : data \in ImportRequests}

(***************************************************************************)
(* One request of any kind, handled on its own                             *)
(***************************************************************************)
InitFunctions ==
    /\ ValidateIdle /\ ResultIdle /\ ImportIdle /\ NamingIdle /\ interp = None
    /\ imported = [key \in AllKeys |-> None] /\ last = [c \in Callers |-> NoCall]
    /\ db \in Stores
    /\ existed = DOMAIN db
    /\ observed = {}
    /\ calculator_instance = None
    /\ constructed = 0
    /\ \E req \in Requests : th = [t \in {"t1"} |-> req]

SpecFunctions == InitFunctions /\ [][NextServe]_vars

(***************************************************************************)
(* Requests handled at the same time by the threads of one process         *)
(***************************************************************************)
Threads == {"t1", "t2"}

\* the rows of a second rainfall file, none of them a row of the first
ReplacementRows == [k \in 1..2 |-> [index |-> k - 1, value |-> float(100 + k)]]

\* a manual calibration, a standard prevision, and the import of either of
\* two files for the same rainfall series
ConcurrentRequests ==
    {Fresh("calibrate", Body([CalibrateBase EXCEPT !.mode = JStr(Chars("manual")),
                                                   !.calibration_params = JDict(model_full)])),
     Fresh("prevision", Body(PrevisionBase)),
     Fresh("import", [uuid |-> Uuid1, data_ref_name |-> pioggia,
                      rows |-> SeriesRows(pioggia, 2)]),
     Fresh("import", [uuid |-> Uuid1, data_ref_name |-> pioggia,
                      rows |-> ReplacementRows])}

InitConcurrent ==
    /\ ValidateIdle /\ ResultIdle /\ ImportIdle /\ NamingIdle /\ interp = None
    /\ imported = [key \in AllKeys |-> None] /\ last = [c \in Callers |-> NoCall]
    /\ db = StoreOf(SeriesTypes, 2)
    /\ existed = DOMAIN db
    /\ observed = {}
    /\ calculator_instance = None
    /\ constructed = 0
    /\ th \in [Threads -> ConcurrentRequests]

SpecConcurrent == InitConcurrent /\ [][NextServe]_vars

(***************************************************************************)
(* A calibrate or prevision request handled while two series of its        *)
(* dataset are replaced, each by an import of its own                      *)
(***************************************************************************)
\* the requests of the three threads: a calibration or a prevision of the
\* dataset, the import of a rainfall file and the import of a water table
\* file
RaceRequests ==
    {[t1 |-> reader,
      t2 |-> Fresh("import", [uuid |-> Uuid1, data_ref_name |-> pioggia,
                              rows |-> ReplacementRows]),
      t3 |-> Fresh("import", [uuid |-> Uuid1, data_ref_name |-> falda,
                              rows |-> SeriesRows(falda, 2)])]
        : reader \in {Fresh("calibrate", Body(CalibrateBase)),
                      Fresh("prevision", Body(PrevisionBase))}}

InitRace ==
    /\ ValidateIdle /\ ResultIdle /\ ImportIdle /\ NamingIdle /\ interp = None
    /\ imported = [key \in AllKeys |-> None] /\ last = [c \in Callers |-> NoCall]
    /\ db = StoreOf(SeriesTypes, 2)
    /\ existed = DOMAIN db
    /\ observed = {}
    /\ calculator_instance = None
    /\ constructed = 0
    /\ th \in RaceRequests

SpecRace == InitRace /\ [][NextServe]_vars

(***************************************************************************)
(* What a file description says about the file, read off the shapes and    *)
(* not off the rendered text                                               *)
(***************************************************************************)
\* the raw lines that are rows, ascending
RowLines(d) == SelectSeq([k \in 1..Len(d.shapes) |-> k], LAMBDA k : IsRow(d, k))

\* the number of errors row r (1-based) must raise
ExpectedRowErrors(d, r) ==
    LET k == RowLines(d)[r]
        shape == d.shapes[k]
    IN  IF k = 1 /\ Garbled(d) THEN 1
        ELSE IF shape \in WellFormedShapes \cup LenientShapes THEN 0
        ELSE IF shape = "bad_both" THEN 2
        ELSE 1

\* every row is "<row position>\t<comma-decimal value>"
WellFormedRows(d) ==
    \A r \in 1..RowCount(d) : d.shapes[RowLines(d)[r]] \in WellFormedShapes

\* the number the value text of row j stands for, in a row that is accepted
ExpectedValue(shape, j, seed) ==
    CASE shape = "ok_exponent" -> Frac(RowValue(j, seed).val.n * 1000, RowValue(j, seed).val.d)
      [] shape = "ok_overflow" ->
            IF RowValue(j, seed).val.n = 0 THEN float(0)
            ELSE Frac(Sign(RowValue(j, seed).val.n), 0)
      [] shape = "ok_underflow" -> float(0)
      [] shape = "ok_inf"      -> inf
      [] shape = "ok_nan"      -> nan
      [] OTHER                 -> RowValue(j, seed).val

\* the rows of a file all of whose rows are accepted
ExpectedData(d) ==
    [r \in 1..RowCount(d) |->
        [index |-> r - 1, value |-> ExpectedValue(d.shapes[RowLines(d)[r]], r - 1, d.seed)]]

\* the request carried a file, and validate_data_file has returned
Validated == vpc = "done" /\ file_input # None

\* the row number a row-level message carries
RowOf(message) == message.en[2]

\* C1: a file of exactly 12 non-blank rows "<row position>\t<comma-decimal
\* value>" is valid, has no errors, and its data are the 12 rows, data[i]
\* holding index i and the number the value text of row i denotes.
C1_WellFormedFileAccepted ==
    (Validated /\ RowCount(file_desc) = 12 /\ WellFormedRows(file_desc)) =>
        /\ result.valid
        /\ result.errors = <<>>
        /\ result.data # None
        /\ Len(result.data[1]) = 12
        /\ \A i \in 0..11 :
              /\ result.data[1][i + 1].index = i
              /\ result.data[1][i + 1].value = RowValue(i, file_desc.seed).val

\* a well-formed file that came as bytes with a BOM, blank lines between the
\* rows and padded fields has been accepted
C1_Witness ==
    /\ Validated /\ RowCount(file_desc) = 12 /\ WellFormedRows(file_desc)
    /\ file_desc.type = "bytes" /\ file_desc.bom
    /\ Len(file_desc.shapes) = 13
    /\ \E k \in 1..13 : file_desc.shapes[k] = "ok_padded"
    /\ result.valid /\ Len(result.data[1]) = 12

\* C2: a file whose number of non-blank lines is not 12 is invalid; its
\* first error states the required count 12 and the observed count; the
\* row-level checks run on every line all the same: the errors after the
\* first are those of the rows, in ascending row order, each row raising
\* exactly the errors its content calls for.
C2_WrongRowCountReported ==
    (Validated /\ RowCount(file_desc) # 12) =>
        /\ ~result.valid
        /\ Len(result.errors) >= 1
        /\ result.errors[1].en = <<"File must contain exactly 12 rows. Found: ", RowCount(file_desc)>>
        /\ result.errors[1].it = <<"Il file deve contenere esattamente 12 righe. Trovate: ", RowCount(file_desc)>>
        /\ LET rest == Tail(result.errors)
           IN  /\ \A a, b \in 1..Len(rest) : a < b => RowOf(rest[a]) <= RowOf(rest[b])
               /\ \A r \in 1..RowCount(file_desc) :
                     Cardinality({a \in 1..Len(rest) : RowOf(rest[a]) = r})
                        = ExpectedRowErrors(file_desc, r)
               /\ \A a \in 1..Len(rest) : RowOf(rest[a]) \in 1..RowCount(file_desc)

\* a 13-row file with two faulty rows has been validated: the count error
\* and, after it, the errors of both rows
C2_Witness ==
    /\ Validated /\ RowCount(file_desc) = 13
    /\ Len(result.errors) >= 3
    /\ \E a, b \in 2..Len(result.errors) :
          RowOf(result.errors[a]) < RowOf(result.errors[b])

\* C3: data are present exactly when no error at all was recorded: a wrong
\* row count or any single failing row leaves data absent; in a valid
\* result data are the rows of the file in row order.  The response of the
\* validate view carries a data key under the same condition, with these rows.
C3_DataOnlyWhenNoError ==
    Validated =>
        /\ (result.data # None) <=> (result.errors = <<>>)
        /\ (result.data # None) <=> result.valid
        /\ (RowCount(file_desc) # 12
              \/ \E r \in 1..RowCount(file_desc) : ExpectedRowErrors(file_desc, r) > 0)
           => result.data = None
        /\ result.valid => result.data = Some(ExpectedData(file_desc))
        /\ ("data" \in DOMAIN response.body) <=> result.valid
        /\ result.valid => response.body.data = ExpectedData(file_desc)

\* a file of 12 rows, one of them faulty: the other eleven parsed, and data
\* are absent
C3_Witness ==
    /\ Validated /\ RowCount(file_desc) = 12
    /\ Cardinality({r \in 1..12 : ExpectedRowErrors(file_desc, r) > 0}) = 1
    /\ Len(result.errors) = 1
    /\ result.data = None

\* C4: after any sequence of add_error and add_warning calls valid is false
\* exactly when errors is non-empty; add_warning changes neither valid nor
\* errors, add_error does not change warnings.
C4_ValidIffNoErrors ==
    /\ [](vr.valid <=> (vr.errors = <<>>))
    /\ [][ /\ vr_op' = "add_warning" => (vr'.valid = vr.valid /\ vr'.errors = vr.errors)
           /\ vr_op' = "add_error" => vr'.warnings = vr.warnings ]_vars

\* a warning was added to a result that was still valid, and one to a result
\* that already held an error
C4_Witness ==
    /\ vr_op = "add_warning" /\ Len(vr.warnings) = 2
    /\ Len(vr.errors) = 1 /\ ~vr.valid

(***************************************************************************)
(* The Series Store                                                        *)
(***************************************************************************)
\* the rows of a table as the (index, value) pairs inserted, in insertion order
StoredData(name) == [i \in 1..Len(db[name]) |-> [index |-> db[name][i].index, value |-> db[name][i].value]]

\* a call of import_data is part-way through its statements
ImportUnderWay == \E c \in Callers : last[c].op = "import_data" /\ last[c].pc # "done"

\* C5: after any sequence of import requests handled one at a time, with
\* valid files, invalid files or no file, that is whenever no import is
\* part-way through its statements, every table that exists holds exactly 12
\* rows, with the indices 0, 1, ..., 11 in this order.
C5_StoredSeriesHaveTwelveRows ==
    ~ImportUnderWay =>
        \A name \in DOMAIN db :
            /\ Len(db[name]) = 12
            /\ \A i \in 1..12 : db[name][i].index = i - 1

\* both series were imported, and the last request, with an invalid file,
\* was refused
C5_Witness ==
    /\ Cardinality(DOMAIN db) = 2
    /\ ~ImportUnderWay
    /\ response # None /\ response.status = 400
    /\ request.file # None

\* the call of caller c has ended and no other caller has changed the
\* database since it began
EndedAlone(c, op) == last[c].op = op /\ last[c].pc = "done" /\ last[c].alone

\* C6: an import_data call that no other caller's statements run into
\* returns, with rows_imported the number of rows given, and leaves in the
\* table of its key exactly the rows given, in the order given, whatever the
\* table held before; and the table of a key holds the rows of the most
\* recent such import_data for the key until the next statement on it.
C6_ReplaceIsFullReplace ==
    /\ \A key \in StoreKeys :
          imported[key] # None =>
              /\ get_table_name(key[1], key[2]) \in DOMAIN db
              /\ StoredData(get_table_name(key[1], key[2])) = imported[key][1]
    /\ \A c \in Callers :
          EndedAlone(c, "import_data") =>
              /\ last[c].raised = "none"
              /\ last[c].ret.rows_imported = Len(last[c].data)
              /\ last[c].ret.table_name \in DOMAIN db
              /\ StoredData(last[c].ret.table_name) = last[c].data
              /\ imported[<<last[c].uuid, last[c].data_type>>] = Some(last[c].data)

\* a unit of two rows was replaced by an import of one row
C6_Witness ==
    /\ EndedAlone("c1", "import_data")
    /\ last["c1"].prior = 2 /\ Len(last["c1"].data) = 1
    /\ Len(db[last["c1"].ret.table_name]) = 1

\* C7: for rows with distinct indices given in any order, get_imported_data
\* after import_data, no other caller's statements between them, returns the
\* same (index, value) pairs, ascending by index.
C7_RoundTrip ==
    \A c \in Callers :
        (/\ EndedAlone(c, "get_imported_data")
         /\ imported[<<last[c].uuid, last[c].data_type>>] # None
         /\ LET data == imported[<<last[c].uuid, last[c].data_type>>][1]
            IN  \A a, b \in 1..Len(data) : a # b => data[a].index # data[b].index)
        => LET data == imported[<<last[c].uuid, last[c].data_type>>][1]
               rows == last[c].ret
           IN  /\ last[c].raised = "none"
               /\ Len(rows) = Len(data)
               /\ {rows[i] : i \in 1..Len(rows)}
                     = {<<data[i].index, data[i].value>> : i \in 1..Len(data)}
               /\ \A a, b \in 1..Len(rows) : a < b => rows[a][1] < rows[b][1]

\* rows given with index 1 before index 0 were read back
C7_Witness ==
    /\ EndedAlone("c1", "get_imported_data")
    /\ imported[<<last["c1"].uuid, last["c1"].data_type>>] # None
    /\ LET data == imported[<<last["c1"].uuid, last["c1"].data_type>>][1]
       IN  /\ Len(data) = 2 /\ data[1].index = 1 /\ data[2].index = 0
           /\ last["c1"].ret = <<<<0, data[2].value>>, <<1, data[1].value>>>>

Rainfall == <<"R", "a", "i", "n", "f", "a", "l", "l">>

WaterTable == <<"W", "a", "t", "e", "r", " ", "t", "a", "b", "l", "e">>

Displacement == <<"D", "i", "s", "p", "l", "a", "c", "e", "m", "e", "n", "t">>

Neve == <<"N", "e", "v", "e">>

Ete == <<"U+00C9", "t", "U+00E9">>

\* the message that names a series type, written out
ExpectedNotFound(data_type) ==
    CASE data_type = pioggia ->
            [it |-> <<"Dati di ", pioggia, " non trovati per questo dataset.">>,
             en |-> <<Rainfall, " data not found for this dataset.">>]
      [] data_type = falda ->
            [it |-> <<"Dati di ", falda, " non trovati per questo dataset.">>,
             en |-> <<WaterTable, " data not found for this dataset.">>]
      [] data_type = spostamento ->
            [it |-> <<"Dati di ", spostamento, " non trovati per questo dataset.">>,
             en |-> <<Displacement, " data not found for this dataset.">>]
      [] data_type = neve ->
            [it |-> <<"Dati di ", neve, " non trovati per questo dataset.">>,
             en |-> <<Neve, " data not found for this dataset.">>]
      [] OTHER ->
            [it |-> <<"Dati di ", ete, " non trovati per questo dataset.">>,
             en |-> <<Ete, " data not found for this dataset.">>]

\* C8: get_imported_data for a key without a table raises DataNotFoundError
\* with the Italian and English message naming the series type, and never
\* returns a list; for a key with a table it returns the rows without error.
\* The table is there, or is not, for the whole of the call: no other caller
\* changes the database meanwhile.
C8_MissingUnitRaisesNotFound ==
    \A c \in Callers :
        EndedAlone(c, "get_imported_data") =>
            LET table_name == get_table_name(last[c].uuid, last[c].data_type)
            IN  /\ table_name \notin DOMAIN db =>
                      /\ last[c].raised = "DataNotFoundError"
                      /\ last[c].message_it = ExpectedNotFound(last[c].data_type).it
                      /\ last[c].message_en = ExpectedNotFound(last[c].data_type).en
                      /\ "ret" \notin DOMAIN last[c]
                /\ table_name \in DOMAIN db =>
                      /\ last[c].raised = "none"
                      /\ Len(last[c].ret) = Len(db[table_name])

\* the water table was read for a dataset that has rainfall only
C8_Witness ==
    /\ EndedAlone("c1", "get_imported_data")
    /\ last["c1"].uuid = Uuid1 /\ last["c1"].data_type = falda
    /\ imported[<<Uuid1, pioggia>>] # None
    /\ get_table_name(Uuid1, falda) \notin DOMAIN db
    /\ last["c1"].raised = "DataNotFoundError"

\* the positions of required_types whose storage unit does not exist
MissingAt(uuid, required_types) ==
    Indices(required_types,
            LAMBDA k : get_table_name(uuid, required_types[k]) \notin DOMAIN db)

\* C9: check_required_data returns one message per required type without a
\* storage unit, in the order of required_types, hence the empty list
\* exactly when all units exist, the units being there or not for the whole
\* of the call; and no step of it changes the database.
C9_CheckRequiredData ==
    /\ [](\A c \in Callers :
            EndedAlone(c, "check_required_data") =>
                LET at == MissingAt(last[c].uuid, last[c].required_types)
                IN  /\ Len(last[c].ret) = Len(at)
                    /\ \A j \in 1..Len(at) :
                          last[c].ret[j] = ExpectedNotFound(last[c].required_types[at[j]])
                    /\ (last[c].ret = <<>>) <=>
                          \A k \in 1..Len(last[c].required_types) :
                              get_table_name(last[c].uuid, last[c].required_types[k])
                                  \in DOMAIN db)
    /\ [][\A c \in Callers :
            (/\ last[c].op = "check_required_data" /\ last[c].pc = "check"
             /\ (last'[c].pc # last[c].pc \/ last'[c].k # last[c].k)) => db' = db]_vars

\* with rainfall present and water table missing the check gave exactly the
\* water-table message
C9_Witness ==
    /\ EndedAlone("c1", "check_required_data") /\ last["c1"].uuid = Uuid1
    /\ last["c1"].required_types = <<pioggia, falda>>
    /\ get_table_name(Uuid1, pioggia) \in DOMAIN db
    /\ get_table_name(Uuid1, falda) \notin DOMAIN db
    /\ last["c1"].ret = <<ExpectedNotFound(falda)>>

(***************************************************************************)
(* Table names                                                             *)
(***************************************************************************)
\* two characters that get_table_name does not tell apart
SameSafeChar(c1, c2) ==
    \/ isalnum(c1) /\ isalnum(c2) /\ LowerChar(c1) = LowerChar(c2)
    \/ ~isalnum(c1) /\ ~isalnum(c2)

SameSafeToken(r1, r2) ==
    Len(r1) = Len(r2) /\ \A k \in 1..Len(r1) : SameSafeChar(r1[k], r2[k])

\* a token of lower-case letters, digits and underscores
SafeToken(r) == \A k \in 1..Len(r) : IsLower(r[k]) \/ IsDigit(r[k]) \/ r[k] = "_"

\* C10 as claimed: two distinct (dataset id, series type) pairs never give
\* the same identifier.
C10_Claimed_CollisionFree ==
    (naming # None /\ naming.done) =>
        (naming.n1 = naming.n2 => naming.p1 = naming.p2)

\* C10: two pairs give the same identifier exactly when the dataset ids are
\* equal and the series types are equal once lower-cased and with every
\* non-alphanumeric character read as '_'; so pairs whose series types hold
\* only lower-case letters, digits and '_' never collide.  The identifier is
\* "import_", the 32 hex digits of the id, '_', and a series-type part of
\* lower-case alphanumerics and underscores as long as the series type.
C10_CollisionsOnlyBySanitising ==
    (naming # None /\ naming.done) =>
        /\ (naming.n1 = naming.n2) <=>
              (naming.p1[1] = naming.p2[1] /\ SameSafeToken(naming.p1[2], naming.p2[2]))
        /\ (SafeToken(naming.p1[2]) /\ SafeToken(naming.p2[2]) /\ naming.n1 = naming.n2)
              => naming.p1 = naming.p2
        /\ Len(naming.n1) = 40 + Len(naming.p1[2])
        /\ \A k \in 41..Len(naming.n1) :
              IsLower(naming.n1[k]) \/ IsDigit(naming.n1[k]) \/ naming.n1[k] = "_"

\* the series types "-" and "." of one dataset got the same identifier
C10_Witness ==
    /\ naming # None /\ naming.done
    /\ naming.p1[1] = naming.p2[1]
    /\ naming.p1[2] = <<"-">> /\ naming.p2[2] = <<".">>
    /\ naming.n1 = naming.n2

(***************************************************************************)
(* Grid alignment                                                          *)
(***************************************************************************)
\* the double of an integer
Whole(i) == ToDouble(float(i))

\* the value the specification gives grid point i of a non-empty series, its
\* formula evaluated on doubles from left to right
ReferencePoint(series, i) ==
    LET n == Len(series)
    IN  IF i <= series[1][1] THEN ToDouble(series[1][2])
        ELSE IF i >= series[n][1] THEN ToDouble(series[n][2])
        ELSE LET j == CHOOSE k \in 1..(n - 1) : series[k][1] <= i /\ i < series[k + 1][1]
                 x0 == series[j][1]
                 y0 == ToDouble(series[j][2])
                 x1 == series[j + 1][1]
                 y1 == ToDouble(series[j + 1][2])
             IN  DAdd(DDiv(DMul(y0, Whole(i - x1)), Whole(x0 - x1)),
                      DDiv(DMul(y1, Whole(i - x0)), Whole(x1 - x0)))

ReferenceGrid(series, gridSize) ==
    [i \in 1..gridSize |-> IF series = <<>> THEN DZero(0) ELSE ReferencePoint(series, i - 1)]

\* C16: interpolate_to_integer_grid equals the reference operator on every
\* ascending duplicate-free series and every grid size: zeros for the empty
\* series, the first value up to the first index, the last value from the
\* last index on, and the linear interpolation of the adjacent samples between.
C16_InterpolationMatchesReference ==
    interp # None /\ interp.done
        => interp.result = ReferenceGrid(interp.data, interp.grid_size)

\* a series from index 3 to index 9 on a grid of 12: grid point 0 has the
\* first value, grid point 11 the last, and grid point 5 a value of its own,
\* 3.496666666666667, which is the double next to the one nearest to
\* 1049/300
C16_Witness ==
    /\ interp # None /\ interp.done /\ interp.grid_size = 12
    /\ Len(interp.data) = 2
    /\ interp.data[1] = <<3, Frac(613, 100)>> /\ interp.data[2] = <<9, Frac(-177, 100)>>
    /\ interp.result[1] = ToDouble(Frac(613, 100))
    /\ interp.result[12] = ToDouble(Frac(-177, 100))
    /\ interp.result[6]
          = [cls |-> "finite", s |-> 0, m |-> <<17914, 16165, 25777, 223>>, e |-> -51]
    /\ interp.result[6] # ToDouble(Frac(1049, 300))

\* the series has a sample at every integer index 0..N-1, N the grid size
AlignedSeries(data, N) ==
    Len(data) = N /\ \A k \in 1..N : data[k][1] = k - 1

\* C17: aligning a series that has a sample at every integer index 0..N-1
\* to the grid of size N returns the values of the series, in order.
C17_AlignedSeriesUnchanged ==
    interp # None /\ interp.done /\ AlignedSeries(interp.data, interp.grid_size)
        => interp.result = [k \in 1..interp.grid_size |-> ToDouble(interp.data[k][2])]

(***************************************************************************)
(* Failed imports                                                          *)
(***************************************************************************)
\* the request carries no file, or a file that validate_data_file rejects
ImportRejected(req) ==
    req.file = None \/ ~ValidatedImport[req.file[1]].valid

\* the data imported for a key are what get_imported_data reads in d
Readable(d, key, data) ==
    LET table_name == get_table_name(key[1], key[2])
    IN  /\ table_name \in DOMAIN d
        /\ SelectRows(d, table_name)
              = {[k \in 1..Len(data) |-> <<data[k].index, data[k].value>>]}

\* C20: an import request with no file, or with a file that fails
\* validation, is answered with status 400 and success = false at once, and
\* leaves every table as it was, so what was imported before is still
\* readable.
C20_FailedImportLeavesStore ==
    [][(request' # request /\ ImportRejected(request'))
          => /\ response' # None
             /\ response'.status = 400
             /\ response'.body.success = FALSE
             /\ db' = db
             /\ \A key \in AllKeys :
                   imported[key] # None => Readable(db', key, imported[key][1])]_vars

\* a rejected request for a key that has data of an earlier import
C20_Witness ==
    /\ request # None /\ ImportRejected(request)
    /\ response # None /\ response.status = 400
    /\ imported[<<request.uuid, request.data_ref_name>>] # None
    /\ Len(db[get_table_name(request.uuid, request.data_ref_name)]) = 12

(***************************************************************************)
(* Calibrate and prevision requests: what a request body says, read off    *)
(* the body and not off the handler                                        *)
(***************************************************************************)
IsFunctionRequest(rec) == rec.kind \in {"calibrate", "prevision"}

\* a parameter object is missing, or lacks one of its keys
ParamsFail(data, field, required) ==
    \/ field \notin DOMAIN data
    \/ data[field].t # "dict"
    \/ \E k \in 1..Len(required) : required[k] \notin DOMAIN data[field].v

\* the structural checks a body fails
FailedChecks(kind, data) ==
    {c \in {"dataset_uuid", "mode", "prevision_type", "geometry", "calibration_params",
            "geotechnical_params", "model_params"} :
        CASE c = "dataset_uuid" ->
                \/ "dataset_uuid" \notin DOMAIN data
                \/ data["dataset_uuid"].t # "str"
                \/ UUID(data["dataset_uuid"].v).raised # "none"
          [] c = "mode" ->
                /\ kind = "calibrate" /\ "mode" \in DOMAIN data
                /\ ~IsStr(data["mode"], "automatic") /\ ~IsStr(data["mode"], "manual")
          [] c = "prevision_type" ->
                /\ kind = "prevision" /\ "prevision_type" \in DOMAIN data
                /\ ~IsStr(data["prevision_type"], "standard")
                /\ ~IsStr(data["prevision_type"], "best_fit_viscosity")
          [] c = "geometry" -> ParamsFail(data, "geometry", required_geometry)
          [] c = "calibration_params" ->
                /\ kind = "calibrate" /\ "mode" \in DOMAIN data /\ IsStr(data["mode"], "manual")
                /\ ParamsFail(data, "calibration_params", required_calibration)
          [] c = "geotechnical_params" ->
                kind = "prevision" /\ ParamsFail(data, "geotechnical_params", required_geotechnical)
          [] c = "model_params" ->
                kind = "prevision" /\ ParamsFail(data, "model_params", required_calibration)}

\* C12: a calibrate or prevision request that fails a structural check is
\* answered with status 400, success false, one error for every failed check
\* and no error_code, and neither the Series Store nor the engine was
\* accessed while it was handled.
C12_StructuralFailureIs400 ==
    \A t \in DOMAIN th :
        (/\ IsFunctionRequest(th[t]) /\ th[t].pc = "done"
         /\ FailedChecks(th[t].kind, th[t].data) # {})
        => LET resp == th[t].response[1]
           IN  /\ resp.raised = "none"
               /\ resp.status = 400
               /\ resp.body.success = FALSE
               /\ Len(resp.body.errors) = Cardinality(FailedChecks(th[t].kind, th[t].data))
               /\ "error_code" \notin DOMAIN resp.body
               /\ th[t].stopped_at = "validate"
               /\ th[t].calls = <<>> /\ th[t].fetched = <<>>

\* the messages of the required series a handler found no table of when it
\* made its last query, in the order the view requires them
AbsentMessages(rec) ==
    LET missing == SelectSeq(RequiredTypes(rec.kind), LAMBDA data_type : data_type \in rec.absent)
    IN  [k \in 1..Len(missing) |-> NotFoundMessage(missing[k])]

\* C11: a calibrate or prevision request answered with status 404 and
\* error_code DATA_NOT_FOUND carries the bilingual message of every required
\* series that is missing when the answer is made, all of them and not only
\* the first.
C11_AllMissingSeriesReported ==
    \A t \in DOMAIN th :
        (/\ IsFunctionRequest(th[t]) /\ th[t].pc = "done"
         /\ th[t].response[1].raised = "none" /\ th[t].response[1].status = 404)
        => LET body == th[t].response[1].body
               expected == AbsentMessages(th[t])
           IN  /\ body.success = FALSE
               /\ body.error_code = "DATA_NOT_FOUND"
               /\ \A k \in 1..Len(expected) :
                     \E j \in 1..Len(body.errors) : body.errors[j] = expected[k]

\* C13: every failure raised by an engine operation or by the storage
\* backend while a calibrate or prevision request is handled is answered
\* with status 500, success false, one bilingual error, error_code
\* CALIBRATION_FAILED or PREVISION_FAILED and a details string; no exception
\* leaves the handler.
C13_FailuresAnsweredWith500 ==
    \A t \in DOMAIN th :
        (/\ IsFunctionRequest(th[t]) /\ th[t].pc = "done"
         /\ th[t].failure \in {"engine", "storage"})
        => LET resp == th[t].response[1]
           IN  /\ resp.raised = "none"
               /\ resp.status = 500
               /\ resp.body.success = FALSE
               /\ Len(resp.body.errors) = 1
               /\ resp.body.errors[1].it # resp.body.errors[1].en
               /\ resp.body.error_code = ErrorCode(th[t].kind)
               /\ resp.body.details # None

\* a prevision request answered with status 200
PrevisionSucceeded(rec) ==
    /\ rec.kind = "prevision" /\ rec.pc = "done"
    /\ rec.response[1].raised = "none" /\ rec.response[1].status = 200

\* the unit multiplier the caller's displacement_unit stands for
ClaimedMultiplier(data) ==
    IF "displacement_unit" \notin DOMAIN data THEN Frac(1, 100)
    ELSE IF IsStr(data["displacement_unit"], "mm") THEN Frac(1, 1000)
    ELSE IF IsStr(data["displacement_unit"], "m") THEN float(1)
    ELSE Frac(1, 100)

\* the inverse of that multiplier: 1000.0 for mm, 1.0 for m, 100.0 otherwise
ClaimedInverse(data) == float(ClaimedMultiplier(data).d)

\* the array the slope-stability operation returned to a request
EngineMatrix(rec) == rec.calls[2].value

\* the request asks for prevision_type best_fit_viscosity
AsksBestFit(data) ==
    "prevision_type" \in DOMAIN data /\ IsStr(data["prevision_type"], "best_fit_viscosity")

\* the number of entries of row r of the engine's array that reach the
\* response: of the rectangular array of the best fit one for every stored
\* rainfall row, of the jagged array of the standard prevision the whole row
EntriesRead(rec, r) ==
    IF AsksBestFit(rec.data) THEN Len(rec.fetched[1]) ELSE Len(EngineMatrix(rec)[r])

\* rows 1, 2 and 3 of the engine's array in a successful prevision response:
\* critical_water_table is row 1 minus geometry.h in double arithmetic,
\* velocity and safety_factor are rows 2 and 3
OtherRowsAsClaimed(rec) ==
    LET M == EngineMatrix(rec)
        out == rec.response[1].body.results
        h == ToDouble(rec.data["geometry"].v["h"])
    IN  /\ out.critical_water_table =
              [i \in 1..EntriesRead(rec, 2) |->
                  [index |-> i - 1, value |-> DSub(ToDouble(M[2][i]), h)]]
        /\ out.velocity =
              [i \in 1..EntriesRead(rec, 3) |-> [index |-> i - 1, value |-> M[3][i]]]
        /\ out.safety_factor =
              [i \in 1..EntriesRead(rec, 4) |-> [index |-> i - 1, value |-> M[4][i]]]

\* C18 as stated: in a successful prevision response displacement_calculated[i]
\* is the engine's row 0 entry i divided by the unit multiplier (0.001 for
\* mm, 0.01 for cm, 1 for m, 0.01 otherwise), the quotient of the two
\* doubles; critical_water_table[i] is row 1 entry i minus geometry.h, and
\* velocity and safety_factor are rows 2 and 3.
C18_DividedByMultiplier ==
    \A t \in DOMAIN th :
        PrevisionSucceeded(th[t])
        => LET M == EngineMatrix(th[t])
               out == th[t].response[1].body.results
               m == ToDouble(ClaimedMultiplier(th[t].data))
           IN  /\ out.displacement_calculated =
                     [i \in 1..EntriesRead(th[t], 1) |->
                         [index |-> i - 1, value |-> DDiv(ToDouble(M[1][i]), m)]]
               /\ OtherRowsAsClaimed(th[t])

\* C18 (amended): in a successful prevision response displacement_calculated[i]
\* is the engine's row 0 entry i multiplied by the inverse multiplier, 1000.0
\* for mm, 1.0 for m and 100.0 otherwise, the product of the two doubles
\* rounded once; critical_water_table[i] is row 1 entry i minus geometry.h,
\* and velocity and safety_factor are rows 2 and 3.
C18_PostProcessing ==
    \A t \in DOMAIN th :
        PrevisionSucceeded(th[t])
        => LET M == EngineMatrix(th[t])
               out == th[t].response[1].body.results
               inverse == ToDouble(ClaimedInverse(th[t].data))
           IN  /\ out.displacement_calculated =
                     [i \in 1..EntriesRead(th[t], 1) |->
                         [index |-> i - 1, value |-> DMul(ToDouble(M[1][i]), inverse)]]
               /\ OtherRowsAsClaimed(th[t])

\* a prevision in cm over six samples: the engine's 0.007 m comes back as
\* 0.007 * 100.0, which is not the double 0.007 / 0.01, and its critical
\* height 19.03 as 19.03 - 20.31
C18_Witness ==
    \E t \in DOMAIN th :
        /\ PrevisionSucceeded(th[t])
        /\ "displacement_unit" \notin DOMAIN th[t].data
        /\ Len(th[t].fetched[1]) = 6
        /\ EngineMatrix(th[t])[1][4] = Frac(7, 1000)
        /\ th[t].response[1].body.results.displacement_calculated[4].value
              = DMul(ToDouble(Frac(7, 1000)), ToDouble(float(100)))
        /\ th[t].response[1].body.results.displacement_calculated[4].value
              # DDiv(ToDouble(Frac(7, 1000)), ToDouble(Frac(1, 100)))
        /\ EngineMatrix(th[t])[2][2] = Frac(1903, 100)
        /\ th[t].response[1].body.results.critical_water_table[2].value
              = DSub(ToDouble(Frac(1903, 100)), ToDouble(Frac(2031, 100)))

InEngine == {t \in DOMAIN th : th[t].pc = "in_engine"}

\* C14: across the calibrate and prevision requests handled at the same time
\* with the process-wide calculator, at most one engine invocation is in
\* flight at any time.
C14_AtMostOneEngineCall == Cardinality(InEngine) <= 1

\* C15 (safety half): a reader finds the table of a key that had data
\* missing only while a replace of that key is between its DROP and its
\* CREATE, or was broken off there.
C15_MissingOnlyDuringReplace ==
    \A o \in observed : o.existed_before => o.replacing # {}

\* C15 (the interleaving): the key had data, a prevision request found its
\* table missing while the import was between DROP and CREATE and was
\* answered 404 DATA_NOT_FOUND, and the import went on to succeed, so the
\* key has data afterwards.
C15_Witness ==
    \E o \in observed :
        /\ o.existed_before
        /\ o.table = get_table_name(Uuid1, pioggia)
        /\ th[o.reader].pc = "done"
        /\ th[o.reader].response[1].raised = "none"
        /\ th[o.reader].response[1].status = 404
        /\ th[o.reader].response[1].body.error_code = "DATA_NOT_FOUND"
        /\ \E w \in o.replacing :
              /\ th[w].pc = "done"
              /\ th[w].response[1].raised = "none"
              /\ th[w].response[1].status = 200
        /\ o.table \in DOMAIN db
        /\ Len(db[o.table]) = 2

(***************************************************************************)
(* C21: the diagnostics of one row                                         *)
(***************************************************************************)
\* the row-level messages of the result that carry row number r, in order
RowMessages(r) ==
    SelectSeq(result.errors, LAMBDA e : e.en[1] = "Row " /\ e.en[2] = r)

\* the kind of a row-level message: the text after the row number
KindOf(message) == message.en[3]

\* C21: a row that does not split into exactly two tab-separated fields
\* raises exactly one error (invalid format); a row whose first field is not
\* an integer raises exactly one error (invalid index) and its value is not
\* examined, so an unparsable value beside it raises nothing; a row whose
\* integer index differs from its 0-based position raises the
\* non-sequential error, naming the position and the index, and its value
\* is parsed all the same, so an unparsable value adds a second error.
C21_PerRowDiagnostics ==
    (Validated /\ ~Garbled(file_desc)) =>
        \A r \in 1..RowCount(file_desc) :
            LET shape == file_desc.shapes[RowLines(file_desc)[r]]
                msgs == RowMessages(r)
            IN  /\ shape \in {"one_field", "three_fields"} =>
                      /\ Len(msgs) = 1
                      /\ KindOf(msgs[1]) = ": invalid format. Expected 2 tab-separated fields, found "
                      /\ msgs[1].en[4] = (IF shape = "one_field" THEN 1 ELSE 3)
                /\ shape \in {"nan_index", "nan_both"} =>
                      /\ Len(msgs) = 1
                      /\ KindOf(msgs[1]) = ": invalid index '"
                /\ shape = "bad_index" =>
                      /\ Len(msgs) = 1
                      /\ KindOf(msgs[1]) = ": non-sequential index. Expected "
                      /\ msgs[1].en[4] = r - 1
                      /\ msgs[1].en[6] = r
                /\ shape = "bad_both" =>
                      /\ Len(msgs) = 2
                      /\ KindOf(msgs[1]) = ": non-sequential index. Expected "
                      /\ msgs[1].en[4] = r - 1
                      /\ msgs[1].en[6] = r
                      /\ KindOf(msgs[2]) = ": invalid numeric value '"

\* a file has been validated in which one row has a wrong index and an
\* unparsable value (two errors) and another a non-integer index beside an
\* unparsable value (one error)
C21_Witness ==
    /\ Validated /\ ~Garbled(file_desc)
    /\ \E r, q \in 1..RowCount(file_desc) :
          /\ file_desc.shapes[RowLines(file_desc)[r]] = "bad_both"
          /\ file_desc.shapes[RowLines(file_desc)[q]] = "nan_both"
          /\ Len(RowMessages(r)) = 2
          /\ Len(RowMessages(q)) = 1

(***************************************************************************)
(* C22, C23: the engine invocations of a calibrate request                 *)
(***************************************************************************)
\* the handler answered 200 to a calibrate request
CalibrateSucceeded(rec) ==
    /\ rec.kind = "calibrate" /\ rec.pc = "done"
    /\ rec.response[1].raised = "none" /\ rec.response[1].status = 200

\* the request asks for the automatic mode: mode is absent or "automatic"
AsksAutomatic(data) == "mode" \notin DOMAIN data \/ IsStr(data["mode"], "automatic")

\* the engine invocations of a handler so far, the one in flight included
Invocations(rec) ==
    [k \in 1..Len(rec.calls) |-> [op |-> rec.calls[k].op, args |-> rec.calls[k].args]]
        \o (IF rec.cur = None THEN <<>> ELSE <<rec.cur[1]>>)

\* the positions at which a handler invoked operation op
InvocationsOf(rec, op) == {k \in 1..Len(Invocations(rec)) : Invocations(rec)[k].op = op}

\* the values of the rows fetched of a series, in the order fetched
StoredSequence(rows) == [k \in 1..Len(rows) |-> rows[k][2]]

\* the values of a stored series that are numbers
StoredNumbers(rows) == {rows[k][2] : k \in {j \in 1..Len(rows) : rows[j][2] # nan}}

\* -1 for minus infinity, 1 for infinity, 0 for a finite value
Side(a) == IF a.d = 0 THEN a.n ELSE 0

\* a <= b of two numbers, infinite or finite
AtMost(a, b) ==
    \/ Side(a) < Side(b)
    \/ Side(a) = Side(b) /\ (Side(a) # 0 \/ a.n * b.d <= b.n * a.d)

\* max() of a stored series: nan when the first value is nan, as no value
\* compares greater than nan, and otherwise the largest of the numbers, as
\* nan compares greater than no value
LargestOf(rows) ==
    IF rows[1][2] = nan THEN nan
    ELSE CHOOSE v \in StoredNumbers(rows) : \A w \in StoredNumbers(rows) : AtMost(w, v)

\* min() of a stored series
SmallestOf(rows) ==
    IF rows[1][2] = nan THEN nan
    ELSE CHOOSE v \in StoredNumbers(rows) : \A w \in StoredNumbers(rows) : AtMost(v, w)

\* the handler has the calculator and both series with rows, and its
\* geometry is an object: nothing stands between it and the engine
ReachesEngine(rec) ==
    /\ rec.handle # None
    /\ Len(rec.fetched) >= 2 /\ rec.fetched[1] # <<>> /\ rec.fetched[2] # <<>>
    /\ rec.data["geometry"].t = "dict"

\* C22: the engine invocations of an automatic calibrate request are best-fit
\* and then the evaluation, each at most once, the evaluation only after
\* best-fit has returned; best-fit is invoked with scale max(rainfall),
\* offset 0, minimum min(water table) and slope angle geometry.i_pc, the
\* evaluation with the (an, kt, hs) best-fit returned and the same offset,
\* minimum and slope angle.  A request that reaches the engine has invoked
\* best-fit exactly once when it ends, and the evaluation exactly once
\* unless best-fit failed to return three parameters.  In the 200 response
\* calculated_water_table is the curve the evaluation returned and
\* calibrated_params are hs, kt, an of best-fit with that offset and minimum.
C22_AutomaticCalibration ==
    \A t \in DOMAIN th :
        (th[t].kind = "calibrate" /\ AsksAutomatic(th[t].data)) =>
            LET rec == th[t]
                inv == Invocations(rec)
                order == <<"MetBestFitPioggia", "CalcolaPioggiaFOR">>
            IN  /\ Len(inv) <= 2
                /\ \A k \in 1..Len(inv) : inv[k].op = order[k]
                /\ Len(inv) >= 1 =>
                      /\ inv[1].args.hs = LargestOf(rec.fetched[1])
                      /\ inv[1].args.ho = float(0)
                      /\ inv[1].args.Hmin = SmallestOf(rec.fetched[2])
                      /\ inv[1].args.alpha = rec.data["geometry"].v["i_pc"]
                /\ Len(inv) = 2 =>
                      /\ ~rec.calls[1].raised
                      /\ inv[2].args.AN = rec.calls[1].value[1]
                      /\ inv[2].args.Kt = rec.calls[1].value[2]
                      /\ inv[2].args.hs = rec.calls[1].value[3]
                      /\ inv[2].args.ho = float(0)
                      /\ inv[2].args.Hmin = SmallestOf(rec.fetched[2])
                      /\ inv[2].args.alpha = rec.data["geometry"].v["i_pc"]
                      /\ inv[2].args.PY = StoredSequence(rec.fetched[1])
                /\ (rec.pc = "done" /\ ReachesEngine(rec)) =>
                      /\ InvocationsOf(rec, "MetBestFitPioggia") = {1}
                      /\ (~rec.calls[1].raised /\ Len(rec.calls[1].value) >= 3)
                            => InvocationsOf(rec, "CalcolaPioggiaFOR") = {2}
                /\ CalibrateSucceeded(rec) =>
                      LET params == rec.calls[1].value
                          evaluation == rec.calls[2]
                          body == rec.response[1].body
                      IN  /\ Len(rec.calls) = 2
                          /\ ~evaluation.raised
                          /\ body.calculated_water_table
                                = [k \in 1..Len(evaluation.value) |->
                                      [index |-> k - 1, value |-> evaluation.value[k]]]
                          /\ body.calibrated_params
                                = [hs |-> params[3], kt |-> params[2], an |-> params[1],
                                   ho |-> float(0), hmin |-> SmallestOf(rec.fetched[2])]

\* an automatic calibration over six stored rows has been answered: the scale
\* passed to best-fit was the largest rainfall, 55.0, and not the first, 5.0
C22_Witness ==
    \E t \in DOMAIN th :
        /\ CalibrateSucceeded(th[t]) /\ AsksAutomatic(th[t].data)
        /\ Len(th[t].fetched[1]) = 6
        /\ Len(th[t].calls) = 2
        /\ th[t].calls[1].args.hs = float(55)
        /\ th[t].fetched[1][1][2] = float(5)
        /\ Len(th[t].response[1].body.calculated_water_table) = 6

\* C23: a manual calibrate request never invokes best-fit and invokes the
\* evaluation at most once, with the caller's hs, kt, an, ho, hmin, slope
\* angle geometry.i_pc and the stored rainfall; a request that reaches the
\* engine with calibration_params an object has invoked it exactly once when
\* it ends; calibrated_params in the 200 response are the caller's five
\* values.
C23_ManualCalibration ==
    \A t \in DOMAIN th :
        (th[t].kind = "calibrate" /\ ~AsksAutomatic(th[t].data)) =>
            LET rec == th[t]
                inv == Invocations(rec)
            IN  /\ InvocationsOf(rec, "MetBestFitPioggia") = {}
                /\ Len(inv) <= 1
                /\ Len(inv) = 1 =>
                      LET p == rec.data["calibration_params"].v
                      IN  /\ inv[1].op = "CalcolaPioggiaFOR"
                          /\ inv[1].args.hs = p["hs"]
                          /\ inv[1].args.Kt = p["kt"]
                          /\ inv[1].args.AN = p["an"]
                          /\ inv[1].args.ho = p["ho"]
                          /\ inv[1].args.Hmin = p["hmin"]
                          /\ inv[1].args.alpha = rec.data["geometry"].v["i_pc"]
                          /\ inv[1].args.PY = StoredSequence(rec.fetched[1])
                /\ (/\ rec.pc = "done" /\ rec.handle # None /\ Len(rec.fetched) = 2
                    /\ rec.data["calibration_params"].t = "dict"
                    /\ rec.data["geometry"].t = "dict") => Len(inv) = 1
                /\ CalibrateSucceeded(rec) =>
                      LET p == rec.data["calibration_params"].v
                      IN  /\ Len(rec.calls) = 1
                          /\ ~rec.calls[1].raised
                          /\ rec.response[1].body.calibrated_params
                                = [hs |-> p["hs"], kt |-> p["kt"], an |-> p["an"],
                                   ho |-> p["ho"], hmin |-> p["hmin"]]
                          /\ rec.response[1].body.calculated_water_table
                                = [k \in 1..Len(rec.calls[1].value) |->
                                      [index |-> k - 1, value |-> rec.calls[1].value[k]]]

\* a manual calibration has been answered 200 after one evaluation with the
\* caller's hs
C23_Witness ==
    \E t \in DOMAIN th :
        /\ CalibrateSucceeded(th[t]) /\ ~AsksAutomatic(th[t].data)
        /\ Len(th[t].calls) = 1
        /\ th[t].calls[1].args.hs = th[t].data["calibration_params"].v["hs"]
        /\ th[t].calls[1].args.hs # th[t].calls[1].args.Kt
        /\ Len(th[t].response[1].body.calculated_water_table) = 6

(***************************************************************************)
(* C24: what a prevision request passes to the slope-stability engine      *)
(***************************************************************************)
SlopeOperations == {"CalcoloPendio", "MetodoBestFitting_MultiBloc"}

\* C24: whenever a prevision handler has invoked a slope-stability
\* operation, N being the number of stored rainfall rows: the time array
\* passed is 0.0, 1.0, ..., N-1; the measured displacement passed is the
\* stored displacement series aligned to the grid of N points (each value
\* times the unit multiplier, and unscaled beside it for best-fit), N
\* entries whatever the stored indices are; the water-table curve passed is
\* the value the evaluation returned to this handler, the evaluation having
\* been invoked with the stored rainfall, model_params and geometry.i_pc.
C24_SlopeEngineInputs ==
    \A t \in DOMAIN th :
        LET rec == th[t]
            inv == Invocations(rec)
        IN  (rec.kind = "prevision" /\ \E k \in 1..Len(inv) : inv[k].op \in SlopeOperations) =>
                LET N == Len(rec.fetched[1])
                    slope == inv[2].args
                    evaluation == rec.calls[1]
                    p == rec.data["model_params"].v
                    aligned == ReferenceGrid(rec.fetched[3], N)
                    multiplier == ToDouble(ClaimedMultiplier(rec.data))
                IN  /\ InvocationsOf(rec, "MetodoBestFitting_MultiBloc")
                          \cup InvocationsOf(rec, "CalcoloPendio") = {2}
                    /\ inv[2].op = (IF AsksBestFit(rec.data) THEN "MetodoBestFitting_MultiBloc"
                                    ELSE "CalcoloPendio")
                    /\ slope.time = [k \in 1..N |-> float(k - 1)]
                    /\ slope.spost_x = slope.time
                    /\ Len(slope.spost_y) = N
                    /\ \A k \in 1..N : slope.spost_y[k] = DMul(aligned[k], multiplier)
                    /\ inv[2].op = "MetodoBestFitting_MultiBloc" => slope.spost_y_misu = aligned
                    /\ evaluation.op = "CalcolaPioggiaFOR" /\ ~evaluation.raised
                    /\ slope.falda_calc = evaluation.value
                    /\ evaluation.args.PY = StoredSequence(rec.fetched[1])
                    /\ evaluation.args.hs = p["hs"] /\ evaluation.args.Kt = p["kt"]
                    /\ evaluation.args.AN = p["an"] /\ evaluation.args.ho = p["ho"]
                    /\ evaluation.args.Hmin = p["hmin"]
                    /\ evaluation.args.alpha = rec.data["geometry"].v["i_pc"]

\* a prevision handler is inside the slope-stability engine with two time
\* points and the displacement stored at the indices 0, 0 and 3, the
\* values 0, 3 and 6: grid point 1 lies between the second sample at 0 and
\* the sample at 3, and 4.0 cm is passed as 4.0 * 0.01 m
C24_Witness ==
    \E t \in DOMAIN th :
        /\ th[t].kind = "prevision" /\ th[t].pc = "in_engine"
        /\ th[t].cur[1].op \in SlopeOperations
        /\ Len(th[t].fetched[1]) = 2
        /\ th[t].fetched[3] = << <<0, float(0)>>, <<0, float(3)>>, <<3, float(6)>> >>
        /\ "displacement_unit" \notin DOMAIN th[t].data
        /\ Len(th[t].cur[1].args.time) = 2
        /\ th[t].cur[1].args.spost_y
              = <<DMul(ToDouble(float(0)), ToDouble(Frac(1, 100))),
                  DMul(ToDouble(float(4)), ToDouble(Frac(1, 100)))>>

(***************************************************************************)
(* C25: the order of the steps of a calibrate or prevision request         *)
(***************************************************************************)
\* the place of a step in the sequence validate inputs, check data presence,
\* retrieve series, align/convert, invoke engine, reshape, respond
StepRank(name) ==
    CASE name = "validate" -> 1
      [] name = "check"    -> 2
      [] name = "retrieve" -> 3
      [] name = "convert"  -> 4
      [] name = "align"    -> 4
      [] name = "invoke"   -> 5
      [] name = "reshape"  -> 6
      [] OTHER             -> 7

\* the positions of a step in the log of a handler
StepsNamed(rec, name) == {k \in 1..Len(rec.steps) : rec.steps[k] = name}

\* C25 as stated: the steps of a request occur in the order validate, check,
\* retrieve, align/convert, invoke engine, reshape, respond, no step starting
\* after a later one has started; every engine invocation comes after the
\* alignment and conversion of the series of the request.
C25_StepsInPipelineOrder ==
    \A t \in DOMAIN th :
        IsFunctionRequest(th[t]) =>
            \A a, b \in 1..Len(th[t].steps) :
                a < b => StepRank(th[t].steps[a]) <= StepRank(th[t].steps[b])

\* name, times times
Repeated(name, times) == [k \in 1..times |-> name]

\* the steps of a request that is answered 200, without the response: one
\* check of every required series, two queries to retrieve each, the values
\* taken out of the rows; in calibrate the invocations and the reshaping; in
\* prevision the evaluation, the displacement aligned and converted to
\* meters, the slope-stability invocation and the reshaping
StepsInOrder(rec) ==
    LET required == Len(RequiredTypes(rec.kind))
    IN  <<"validate">> \o Repeated("check", required) \o Repeated("retrieve", 2 * required)
            \o <<"convert">>
            \o (IF rec.kind = "calibrate"
                THEN Repeated("invoke", IF AsksAutomatic(rec.data) THEN 2 ELSE 1)
                ELSE <<"invoke", "align", "convert", "invoke">>)
            \o <<"reshape">>

\* the steps of a handler before its response
BeforeResponse(rec) ==
    IF rec.pc = "done" THEN SubSeq(rec.steps, 1, Len(rec.steps) - 1) ELSE rec.steps

\* C25 (amended): the steps of a calibrate request occur in the order
\* validate, check, retrieve, convert, invoke, reshape, respond; those of a
\* prevision request in the order validate, check, retrieve, convert,
\* invoke (water table), align, convert (displacement to meters), invoke
\* (slope stability), reshape, respond: a request takes a prefix of these
\* steps and then responds, every engine invocation comes after the series
\* have been retrieved and before any result is reshaped, and the
\* displacement is aligned and converted after the first engine invocation
\* has returned.
C25_StepOrder ==
    \A t \in DOMAIN th :
        IsFunctionRequest(th[t]) =>
            LET rec == th[t]
                before == BeforeResponse(rec)
            IN  /\ Len(before) <= Len(StepsInOrder(rec))
                /\ before = SubSeq(StepsInOrder(rec), 1, Len(before))
                /\ rec.pc = "done" => rec.steps[Len(rec.steps)] = "respond"
                /\ Cardinality(StepsNamed(rec, "invoke")) = Len(Invocations(rec))
                /\ \A a \in StepsNamed(rec, "align") :
                      Len(rec.calls) >= 1 /\ ~rec.calls[1].raised

\* a prevision has been answered 200: its log is validate, three checks, six
\* retrievals, convert, invoke, align, convert, invoke, reshape, respond
C25_Witness ==
    \E t \in DOMAIN th :
        /\ PrevisionSucceeded(th[t])
        /\ th[t].steps = <<"validate", "check", "check", "check",
                           "retrieve", "retrieve", "retrieve", "retrieve", "retrieve", "retrieve",
                           "convert", "invoke", "align", "convert", "invoke", "reshape",
                           "respond">>

(***************************************************************************)
(* C26: a failed engine invocation ends the request                        *)
(***************************************************************************)
\* the positions of the invocations of a handler in which the engine raised
FailedInvocations(rec) == {k \in 1..Len(rec.calls) : rec.calls[k].raised}

\* C26: once an engine invocation of a request has failed it is the last
\* invocation of the request: none is in flight and none follows, and the
\* request has ended with the 500 failure response of its view; a failed
\* best-fit is not followed by the evaluation, a failed water-table
\* evaluation of a prevision not by the slope-stability call.
C26_NoRetry ==
    \A t \in DOMAIN th :
        LET rec == th[t]
        IN  (IsFunctionRequest(rec) /\ FailedInvocations(rec) # {}) =>
                /\ FailedInvocations(rec) = {Len(rec.calls)}
                /\ rec.cur = None
                /\ rec.pc = "done"
                /\ rec.response[1].raised = "none"
                /\ rec.response[1].status = 500
                /\ rec.response[1].body.success = FALSE
                /\ rec.response[1].body.error_code = ErrorCode(rec.kind)
                /\ rec.calls[1].op = "MetBestFitPioggia" /\ rec.calls[1].raised
                      => InvocationsOf(rec, "CalcolaPioggiaFOR") = {}
                /\ rec.kind = "prevision" /\ rec.calls[1].raised
                      => Len(Invocations(rec)) = 1

\* the water-table evaluation of a prevision over six stored rows has
\* failed: the request was answered 500 PREVISION_FAILED after that one
\* invocation
C26_Witness ==
    \E t \in DOMAIN th :
        /\ th[t].kind = "prevision" /\ th[t].pc = "done"
        /\ Len(th[t].calls) = 1
        /\ Len(th[t].fetched[1]) = 6
        /\ th[t].calls[1].op = "CalcolaPioggiaFOR" /\ th[t].calls[1].raised
        /\ th[t].response[1].status = 500
        /\ th[t].response[1].body.error_code = "PREVISION_FAILED"

(***************************************************************************)
(* C27: grid alignment of a series in any order                            *)
(***************************************************************************)
\* C27: on every non-empty series, the indices ascending or not and
\* repeated or not, and every grid size, interpolate_to_integer_grid
\* returns: no turn of its loop divides by zero or reads a sample past the
\* end of the series, and the list returned has exactly grid_size values.
C27_AlignmentTotal ==
    (interp # None /\ interp.done /\ interp.data # <<>>) =>
        /\ interp.raised = "none"
        /\ Len(interp.result) = interp.grid_size
        /\ \A i \in 0..(interp.grid_size - 1) :
              LET x_vals == [k \in 1..Len(interp.data) |-> float(interp.data[k][1])]
                  k == BracketIndex(x_vals, float(i), 0)
              IN  (~FLe(float(i), x_vals[1]) /\ ~FGe(float(i), x_vals[Len(x_vals)]))
                      => /\ 1 <= k /\ k < Len(x_vals)
                         /\ x_vals[k] # x_vals[k + 1]

\* the series (1, 6.13), (0, -1.77), (5, 6.13), out of order, has been
\* aligned to seven points: point 3 lies between the samples at 0 and 5
\* and has the value 2.9699999999999998
C27_Witness ==
    /\ interp # None /\ interp.done /\ interp.grid_size = 7
    /\ interp.data = << <<1, Frac(613, 100)>>, <<0, Frac(-177, 100)>>, <<5, Frac(613, 100)>> >>
    /\ interp.raised = "none"
    /\ Len(interp.result) = 7
    /\ interp.result[4]
          = [cls |-> "finite", s |-> 0, m |-> <<30146, 14417, 2621, 190>>, e |-> -51]

(***************************************************************************)
(* C28, C29: imports of one key at the same time as other requests         *)
(***************************************************************************)
\* the import handled by rec has reported success
ImportSucceeded(rec) ==
    /\ rec.kind = "import" /\ rec.pc = "done"
    /\ rec.response[1].raised = "none" /\ rec.response[1].status = 200

ImportTable(rec) == get_table_name(rec.data.uuid, rec.data.data_ref_name)

\* the (index, value) rows of a table, in the order of their ids
StoredRows(table_name) ==
    [k \in 1..Len(db[table_name]) |->
        [index |-> db[table_name][k].index, value |-> db[table_name][k].value]]

\* C28: when two imports of the same key have both reported success, the
\* stored series is the rows of one of the two files: not rows of both, not
\* the rows of one after the rows of the other, not a mixture.
C28_ConcurrentImportsKeepOneFile ==
    \A a, b \in DOMAIN th :
        (a # b /\ ImportSucceeded(th[a]) /\ ImportSucceeded(th[b])
             /\ ImportTable(th[a]) = ImportTable(th[b])) =>
            /\ table_exists(db, ImportTable(th[a]))
            /\ StoredRows(ImportTable(th[a])) \in {th[a].data.rows, th[b].data.rows}

\* the rows get_imported_data returns for a complete import of `rows`
ReturnedFor(rows) == [k \in 1..Len(rows) |-> <<rows[k].index, rows[k].value>>]

\* the row sets a reader of rainfall may be given: those of the import that
\* preceded the requests and those of the files being imported
CompleteRainfall ==
    {ReturnedFor(SeriesRows(pioggia, 2))}
        \cup {ReturnedFor(th[w].data.rows) : w \in {u \in DOMAIN th : th[u].kind = "import"}}

\* C29: a get_imported_data call that runs while an import of the same key
\* is in flight ends in NotFound or returns a complete row set, the rows of
\* the previous import or the rows of the new one: never no rows, never a
\* prefix of the rows being inserted.
C29_ReaderSeesCompleteSeries ==
    \A t \in DOMAIN th :
        (IsFunctionRequest(th[t]) /\ Len(th[t].fetched) >= 1)
            => th[t].fetched[1] \in CompleteRainfall

(***************************************************************************)
(* C30: the calculator singleton                                           *)
(***************************************************************************)
\* the instances get_calculator has returned to the handlers
HandlesReturned == {th[t].handle[1] : t \in {u \in DOMAIN th : th[u].handle # None}}

\* C30: whatever the interleaving of the first calls of get_calculator,
\* Mode2Calculator is constructed at most once in the process and every
\* call of get_calculator returns the same instance.
C30_SingleCalculator ==
    /\ constructed <= 1
    /\ Cardinality(HandlesReturned) <= 1

==========================================================================
